---- MODULE Spec2Model ----
(***************************************************************************)
(* Model of the dice-elimination game state machine (src/src/game/domain.rs)*)
(* A Game is a record [players, current_max, turn_index, status].  Every    *)
(* public mutator is an operator from the game before the call to the game  *)
(* after it together with the value the call returns.                       *)
(***************************************************************************)
EXTENDS Integers, Sequences, FiniteSets, TLC

\* ---------------------------------------------------------------- bounds
\* Player ids that callers may present (PlayerId is an opaque uuid).
NumPlayers == 3
\* Largest small value a Roller implementation returns in the model.
MaxRoll == 3

\* Live connections opened over a run.
MaxConns == 2
\* Join requests submitted over a run.
MaxJoinReqs == 2
\* ROLL commands received over a run.
MaxRollCmds == 2
\* Repository calls and socket writes that fail over a run.
MaxFailures == 1
\* Handler runs (connections, join requests, ROLL commands) and failures
\* over a run, taken together.
MaxOps == 5
\* Largest value of the sample of ThreadRngRoller results the server draws.
MaxSysRoll == 2

\* Games and registry tasks of the session-registry specifications.
NumGames == 2
NumTasks == 2
\* Broadcasts and private sends per run of the registry interface.
MaxSends == 1

Players == 1..NumPlayers
Games == 1..NumGames
Tasks == 1..NumTasks
Conns == 1..MaxConns
JoinReqs == 1..MaxJoinReqs

\* Game::new starts current_max at 1000.
InitialMax == 1000

\* Values an arbitrary `impl Roller` may return: the trait puts no bound on
\* the result (the tests' MockRoller ignores max), so 0 and values above
\* current_max are included.
RollValues == (0..MaxRoll) \cup {InitialMax}

\* ------------------------------------------------------------ GameStatus
WaitingForPlayers == <<"WaitingForPlayers">>
InProgress == <<"InProgress">>
PausedForReconnect(p) == <<"PausedForReconnect", p>>
PlayerLost(p) == <<"PlayerLost", p>>

IsPaused(s) == s[1] = "PausedForReconnect"
IsLost(s) == s[1] = "PlayerLost"

\* ------------------------------------------------------------- GameEvent
Rolled(player_id, value) == <<"Rolled", player_id, value>>
GameOver(winner_id, loser_id) == <<"GameOver", winner_id, loser_id>>

\* ------------------------------------------------ Result / Option values
Ok == "Ok"
GameFinished == "GameFinished"
NotYourTurn == "NotYourTurn"
GameFull == "GameFull"
GamePaused == "GamePaused"
NotEnoughPlayers == "NotEnoughPlayers"
GameErrors == {GameFinished, NotYourTurn, GameFull, GamePaused, NotEnoughPlayers}

None == <<>>
Some(x) == <<x>>

\* ------------------------------------------------------------------ Game
\* A constructor that starts the game as if a second player had joined.
new_in_progress(host_id) ==
    [players |-> <<host_id>>,
     current_max |-> InitialMax,
     turn_index |-> 0,
     status |-> InProgress]

\* Game::new(host_id)
new(host_id) ==
    [players |-> <<host_id>>,
     current_max |-> InitialMax,
     turn_index |-> 0,
     status |-> WaitingForPlayers]

\* Game::get_current_player: players.get(turn_index), 0-based.
get_current_player(self) ==
    IF self.turn_index < Len(self.players)
    THEN Some(self.players[self.turn_index + 1])
    ELSE None

\* join with the status test narrowed to InProgress only.
join_unless_in_progress(self, player_id) ==
    IF self.status = InProgress
    THEN [game |-> self, result |-> GameFull]
    ELSE LET pushed == Append(self.players, player_id)
         IN [game |-> [self EXCEPT !.players = pushed,
                                   !.status = IF Len(pushed) = 2
                                              THEN InProgress
                                              ELSE self.status],
             result |-> Ok]

\* join that appends whatever the status is.
join_always_appends(self, player_id) ==
    [game |-> [self EXCEPT !.players = Append(self.players, player_id),
                           !.status = IF self.status = WaitingForPlayers
                                      THEN InProgress ELSE self.status],
     result |-> Ok]

\* join that leaves the status at WaitingForPlayers.
join_no_start(self, player_id) ==
    IF self.status # WaitingForPlayers
    THEN [game |-> self, result |-> GameFull]
    ELSE [game |-> [self EXCEPT !.players = Append(self.players, player_id)],
          result |-> Ok]

\* join that pushes the player before it reports GameFull.
join_pushes_before_error(self, player_id) ==
    LET pushed == Append(self.players, player_id)
    IN IF self.status # WaitingForPlayers
       THEN [game |-> [self EXCEPT !.players = pushed], result |-> GameFull]
       ELSE [game |-> [self EXCEPT !.players = pushed,
                                   !.status = IF Len(pushed) = 2
                                              THEN InProgress
                                              ELSE self.status],
             result |-> Ok]

\* Game::join
join(self, player_id) ==
    IF self.status # WaitingForPlayers
    THEN [game |-> self, result |-> GameFull]
    ELSE LET pushed == Append(self.players, player_id)
         IN [game |-> [self EXCEPT !.players = pushed,
                                   !.status = IF Len(pushed) = 2
                                              THEN InProgress
                                              ELSE self.status],
             result |-> Ok]

\* reconnect that does not compare the requester with the paused player.
reconnect_any_player(self, player_id) ==
    IF IsPaused(self.status)
    THEN [game |-> [self EXCEPT !.status = InProgress], result |-> Ok]
    ELSE IF self.status = InProgress
         THEN [game |-> self, result |-> Ok]
         ELSE [game |-> self, result |-> GamePaused]

\* reconnect whose catch-all arm resumes the game instead of failing.
reconnect_from_any(self, player_id) ==
    IF IsPaused(self.status)
    THEN IF self.status[2] = player_id
         THEN [game |-> [self EXCEPT !.status = InProgress], result |-> Ok]
         ELSE [game |-> self, result |-> GameFull]
    ELSE IF self.status = InProgress
         THEN [game |-> self, result |-> Ok]
         ELSE [game |-> [self EXCEPT !.status = InProgress], result |-> Ok]

\* Game::reconnect
reconnect(self, player_id) ==
    IF IsPaused(self.status)
    THEN IF self.status[2] = player_id
         THEN [game |-> [self EXCEPT !.status = InProgress], result |-> Ok]
         ELSE [game |-> self, result |-> GameFull]
    ELSE IF self.status = InProgress
         THEN [game |-> self, result |-> Ok]
         ELSE [game |-> self, result |-> GamePaused]

\* pause_game that refuses only games that are not running yet or are
\* already paused, and so pauses a finished game.
pause_game_ignores_finished(self, disconnected_player) ==
    IF self.status = WaitingForPlayers \/ IsPaused(self.status)
    THEN [game |-> self, result |-> GameFinished]
    ELSE [game |-> [self EXCEPT !.status = PausedForReconnect(disconnected_player)],
          result |-> Ok]

\* pause_game that lets a second pause replace the paused player.
pause_game_repause(self, disconnected_player) ==
    IF self.status = WaitingForPlayers \/ IsLost(self.status)
    THEN [game |-> self, result |-> GameFinished]
    ELSE [game |-> [self EXCEPT !.status = PausedForReconnect(disconnected_player)],
          result |-> Ok]

\* pause_game that also resets the turn to the first player.
pause_game_resets_turn(self, disconnected_player) ==
    IF self.status # InProgress
    THEN [game |-> self, result |-> GameFinished]
    ELSE [game |-> [self EXCEPT
                       !.status = PausedForReconnect(disconnected_player),
                       !.turn_index = 0],
          result |-> Ok]

\* Game::pause_game
pause_game(self, disconnected_player) ==
    IF self.status # InProgress
    THEN [game |-> self, result |-> GameFinished]
    ELSE [game |-> [self EXCEPT !.status = PausedForReconnect(disconnected_player)],
          result |-> Ok]

\* next_turn without the modulo.
next_turn_no_mod(self) ==
    [self EXCEPT !.turn_index = self.turn_index + 1]

\* Game::next_turn
next_turn(self) ==
    [self EXCEPT !.turn_index = (self.turn_index + 1) % Len(self.players)]

\* The winner computed in handle_roll: the first entry of players different
\* from player_id, falling back to player_id itself.
FindWinner(players, player_id) ==
    LET others == {i \in 1..Len(players) : players[i] # player_id}
    IN IF others = {}
       THEN player_id
       ELSE players[CHOOSE i \in others : \A j \in others : i <= j]

\* handle_roll that forgets to pass the turn after a non-losing roll.
handle_roll_no_rotation(self, player_id, roll_result, events) ==
    IF self.status # InProgress
    THEN [game |-> self, events |-> events]
    ELSE LET rolled == Append(events, Rolled(player_id, roll_result))
         IN IF roll_result = 1
            THEN [game |-> [self EXCEPT !.status = PlayerLost(player_id)],
                  events |-> Append(rolled,
                                    GameOver(FindWinner(self.players, player_id),
                                             player_id))]
            ELSE [game |-> [self EXCEPT !.current_max = roll_result],
                  events |-> rolled]

\* handle_roll that passes the turn on a losing roll too.
handle_roll_rotates_on_loss(self, player_id, roll_result, events) ==
    IF self.status # InProgress
    THEN [game |-> self, events |-> events]
    ELSE LET rolled == Append(events, Rolled(player_id, roll_result))
         IN IF roll_result = 1
            THEN [game |-> next_turn([self EXCEPT !.status = PlayerLost(player_id)]),
                  events |-> Append(rolled,
                                    GameOver(FindWinner(self.players, player_id),
                                             player_id))]
            ELSE [game |-> next_turn([self EXCEPT !.current_max = roll_result]),
                  events |-> rolled]

\* handle_roll that tests roll_result <= 1 instead of roll_result == 1.
handle_roll_lose_at_most_one(self, player_id, roll_result, events) ==
    IF self.status # InProgress
    THEN [game |-> self, events |-> events]
    ELSE LET rolled == Append(events, Rolled(player_id, roll_result))
         IN IF roll_result <= 1
            THEN [game |-> [self EXCEPT !.status = PlayerLost(player_id)],
                  events |-> Append(rolled,
                                    GameOver(FindWinner(self.players, player_id),
                                             player_id))]
            ELSE [game |-> next_turn([self EXCEPT !.current_max = roll_result]),
                  events |-> rolled]

\* Game::handle_roll: returns the game and the event vector after the call.
handle_roll(self, player_id, roll_result, events) ==
    IF self.status # InProgress
    THEN [game |-> self, events |-> events]
    ELSE LET rolled == Append(events, Rolled(player_id, roll_result))
         IN IF roll_result = 1
            THEN [game |-> [self EXCEPT !.status = PlayerLost(player_id)],
                  events |-> Append(rolled,
                                    GameOver(FindWinner(self.players, player_id),
                                             player_id))]
            ELSE [game |-> next_turn([self EXCEPT !.current_max = roll_result]),
                  events |-> rolled]

\* roll that checks the turn before the status.
roll_turn_first(self, player_id, value_to_return) ==
    LET fail(e) == [game |-> self, result |-> e, events |-> <<>>,
                    consulted |-> FALSE]
    IN IF get_current_player(self) # Some(player_id) THEN fail(NotYourTurn)
       ELSE IF self.status = WaitingForPlayers THEN fail(NotEnoughPlayers)
       ELSE IF IsPaused(self.status) THEN fail(GamePaused)
       ELSE IF IsLost(self.status) THEN fail(GameFinished)
       ELSE LET h == handle_roll(self, player_id, value_to_return, <<>>)
            IN [game |-> h.game, result |-> Ok, events |-> h.events,
                consulted |-> TRUE]

\* Game::roll.  value_to_return is what roller.roll_in_range would answer;
\* consulted records whether roll_in_range was called at all.
roll(self, player_id, value_to_return) ==
    LET fail(e) == [game |-> self, result |-> e, events |-> <<>>,
                    consulted |-> FALSE]
    IN IF self.status = WaitingForPlayers THEN fail(NotEnoughPlayers)
       ELSE IF IsPaused(self.status) THEN fail(GamePaused)
       ELSE IF IsLost(self.status) THEN fail(GameFinished)
       ELSE IF get_current_player(self) # Some(player_id) THEN fail(NotYourTurn)
       ELSE LET h == handle_roll(self, player_id, value_to_return, <<>>)
            IN [game |-> h.game, result |-> Ok, events |-> h.events,
                consulted |-> TRUE]

\* ------------------------------------------------------------ the state
VARIABLES
    game,            \* the Game aggregate
    last,            \* the most recent call on it: operation, arguments,
                     \* the game before the call, and what the call returned
    join_successes,  \* number of join calls that returned Ok so far
    store,           \* the repository entry of the game: None or Some(Game)
    sessions,        \* session_manager.sessions entry of the game: None or
                     \* Some(map from PlayerId to the connection whose sender
                     \* is stored there)
    chan,            \* per connection, the messages enqueued on its channel
    conn,            \* per connection, the position and locals of handle_socket
    joinreq,         \* per join request, the position and locals of
                     \* join_game_handler
    store_version,   \* number of successful save_game calls so far
    failures,        \* number of failed repository calls and socket writes
    roll_log,        \* players of the RollResult broadcasts, in order
    game_over_count, \* number of GameOver broadcasts so far
    rolls_started,   \* number of ROLL commands received so far
    registry,        \* session_manager.sessions: per game, None or
                     \* Some(map from PlayerId to the task whose sender is
                     \* stored there)
    outbox,          \* per task, the messages enqueued on its channel
    task             \* per task, its position, its locals and the registry
                     \* locks it holds

sys_vars == <<store, sessions, chan, conn, joinreq, store_version, failures,
              roll_log, game_over_count, rolls_started>>
game_vars == <<game, last, join_successes>>
reg_vars == <<registry, outbox, task>>
vars == <<game, last, join_successes, store, sessions, chan, conn, joinreq,
          store_version, failures, roll_log, game_over_count, rolls_started,
          registry, outbox, task>>

\* A connection slot before the upgrade request arrives.
IdleConn ==
    [pc |-> "idle", player |-> 0, local |-> None, events |-> <<>>,
     err |-> "none", ver |-> 0, cmd |-> 0,
     rx_open |-> FALSE, alone |-> FALSE, heard |-> {}]

\* A join request slot before the request arrives.
IdleJoinReq ==
    [pc |-> "idle", player |-> 0, local |-> None, ver |-> 0, response |-> "none"]

\* AppState at start-up: empty repository, empty session manager.
SysIdle ==
    /\ store = None
    /\ sessions = None
    /\ chan = [c \in Conns |-> <<>>]
    /\ conn = [c \in Conns |-> IdleConn]
    /\ joinreq = [r \in JoinReqs |-> IdleJoinReq]
    /\ store_version = 0
    /\ failures = 0
    /\ roll_log = <<>>
    /\ game_over_count = 0
    /\ rolls_started = 0

\* A task slot before its connection exists.
IdleTask ==
    [pc |-> "idle", game |-> 0, player |-> 0, rx_open |-> FALSE,
     outer |-> "none", inner |-> "none", ret |-> "none", cmds |-> 0]

\* The session manager at start-up, as the registry specifications see it.
RegIdle ==
    /\ registry = [g \in Games |-> None]
    /\ outbox = [t \in Tasks |-> <<>>]
    /\ task = [t \in Tasks |-> IdleTask]

Call(op, player, value, before, result, events, consulted) ==
    [op |-> op, player |-> player, value |-> value, before |-> before,
     result |-> result, events |-> events, consulted |-> consulted]

Init ==
    \E host_id \in Players :
        /\ game = new(host_id)
        /\ last = Call("new", host_id, 0, new(host_id), Ok, <<>>, FALSE)
        /\ join_successes = 0
        /\ SysIdle
        /\ RegIdle

DoJoin ==
    \E player_id \in Players :
        LET r == join(game, player_id)
        IN /\ game' = r.game
           /\ last' = Call("join", player_id, 0, game, r.result, <<>>, FALSE)
           /\ join_successes' = IF r.result = Ok
                                THEN join_successes + 1
                                ELSE join_successes
           /\ UNCHANGED <<sys_vars, reg_vars>>

DoReconnect ==
    \E player_id \in Players :
        LET r == reconnect(game, player_id)
        IN /\ game' = r.game
           /\ last' = Call("reconnect", player_id, 0, game, r.result, <<>>, FALSE)
           /\ UNCHANGED join_successes
           /\ UNCHANGED <<sys_vars, reg_vars>>

DoPauseGame ==
    \E disconnected_player \in Players :
        LET r == pause_game(game, disconnected_player)
        IN /\ game' = r.game
           /\ last' = Call("pause_game", disconnected_player, 0, game,
                           r.result, <<>>, FALSE)
           /\ UNCHANGED join_successes
           /\ UNCHANGED <<sys_vars, reg_vars>>

DoRoll ==
    \E player_id \in Players, value_to_return \in RollValues :
        LET r == roll(game, player_id, value_to_return)
        IN /\ game' = r.game
           /\ last' = Call("roll", player_id, value_to_return, game,
                           r.result, r.events, r.consulted)
           /\ UNCHANGED join_successes
           /\ UNCHANGED <<sys_vars, reg_vars>>

Next == DoJoin \/ DoReconnect \/ DoPauseGame \/ DoRoll

Spec == Init /\ [][Next]_vars

\* =================================================================
\* The server: repository, session manager, REST and WebSocket handlers
\* =================================================================

\* A roller whose range starts at 0.
roll_in_range_from_zero(max) ==
    {v \in (0..MaxRoll) \cup {max} : 0 <= v /\ v <= max}

\* A range that reaches one past max.
roll_in_range_past_max(max) ==
    {v \in (1..MaxRoll) \cup {max, max + 1} : 1 <= v /\ v <= max + 1}

\* ThreadRngRoller::roll_in_range: rng.random_range(1..=max).  The outcomes
\* are sampled: the small values and max itself.  An empty range (max = 0)
\* has no outcome: random_range panics.
roll_in_range(max) ==
    {v \in (1..MaxRoll) \cup {max} : 1 <= v /\ v <= max}

\* The results the server's rollers are sampled at.
SysRollOutcomes(max) == {v \in roll_in_range(max) : v <= MaxSysRoll}

\* GameRepository::load_game.  reachable = FALSE is a store or
\* deserialization failure.
load_game(reachable) ==
    IF ~reachable THEN [result |-> "StoreError", game |-> None]
    ELSE IF store = None THEN [result |-> "GameNotFound", game |-> None]
    ELSE [result |-> Ok, game |-> store]

\* A membership test that finds nobody.
contains_nobody(players, player_id) == Len(players) < 0

\* A membership test that accepts every player id.
contains_anyone(players, player_id) == Len(players) > 0

\* game.get_players().contains(&player_id)
contains(players, player_id) ==
    \E i \in 1..Len(players) : players[i] = player_id

\* ServerMessage variants; origin names the handler run that sent the
\* message.
ServerGameState(g, origin) ==
    [type |-> "GAME_STATE", game |-> g, origin |-> origin]
ServerError(message, origin) ==
    [type |-> "ERROR", message |-> message, origin |-> origin]
ServerPlayerJoined(player_id, origin) ==
    [type |-> "PLAYER_JOINED", player_id |-> player_id, origin |-> origin]
ServerRollResult(player_id, rolled_value, origin) ==
    [type |-> "ROLL_RESULT", player_id |-> player_id,
     rolled_value |-> rolled_value, origin |-> origin]
ServerGameOver(winner_id, loser_id, origin) ==
    [type |-> "GAME_OVER", winner_id |-> winner_id, loser_id |-> loser_id,
     origin |-> origin]

\* The translation of a GameEvent in handle_roll_command.
EventMessage(event, origin) ==
    IF event[1] = "Rolled"
    THEN ServerRollResult(event[2], event[3], origin)
    ELSE ServerGameOver(event[2], event[3], origin)

\* Connections whose sender is stored in the session of the game.
Registered(sess) ==
    IF sess = None THEN {}
    ELSE {sess[1][pid] : pid \in DOMAIN sess[1]}

\* sender.send(message): enqueues unless the receiver has been dropped.
send(ch, cn, k, message) ==
    IF cn[k].rx_open THEN [ch EXCEPT ![k] = Append(ch[k], message)] ELSE ch

\* A broadcast that gives up at the first sender whose receiver is gone.
broadcast_message_stops_at_closed(sess, ch, cn, message) ==
    [k \in DOMAIN ch |->
        IF /\ k \in Registered(sess)
           /\ \A j \in Registered(sess) : cn[j].rx_open
        THEN Append(ch[k], message)
        ELSE ch[k]]

\* broadcast_message: one send per sender in the session of the game.
broadcast_message(sess, ch, cn, message) ==
    [k \in DOMAIN ch |->
        IF k \in Registered(sess) THEN send(ch, cn, k, message)[k] ELSE ch[k]]

\* send_error_to_player: one send to the sender stored for player_id.
send_error_to_player(sess, ch, cn, player_id, message) ==
    IF sess = None THEN ch
    ELSE IF player_id \notin DOMAIN sess[1] THEN ch
    ELSE send(ch, cn, sess[1][player_id], message)

\* players.insert(player_id, sender) on the (possibly new) session.
insert(sess, player_id, k) ==
    IF sess = None THEN Some(player_id :> k)
    ELSE Some((player_id :> k) @@ sess[1])

\* A removal that leaves the registry as it is.
remove_nothing(sess, player_id) == sess

\* players.remove(&player_id) if the session exists.
remove(sess, player_id) ==
    IF sess = None THEN sess
    ELSE Some([pid \in (DOMAIN sess[1]) \ {player_id} |-> sess[1][pid]])

\* A dispatch that sends every requester on a waiting game to join.
join_dispatch_always_joins(g, joining_player) ==
    IF g.status = WaitingForPlayers
    THEN join(g, joining_player)
    ELSE IF contains(g.players, joining_player)
         THEN reconnect(g, joining_player)
         ELSE [game |-> g, result |-> "Forbidden"]

\* The match in join_game_handler.
join_dispatch(g, joining_player) ==
    IF g.status = WaitingForPlayers
    THEN IF contains(g.players, joining_player)
         THEN [game |-> g, result |-> Ok]
         ELSE join(g, joining_player)
    ELSE IF contains(g.players, joining_player)
         THEN reconnect(g, joining_player)
         ELSE [game |-> g, result |-> "Forbidden"]

\* Handlers that are between operations.
ConnQuiet(k) == conn[k].pc \in {"idle", "running", "closed", "rejected"}
JoinQuiet(r) == joinreq[r].pc \in {"idle", "done"}
OthersQuiet(c) ==
    /\ \A k \in Conns \ {c} : ConnQuiet(k)
    /\ \A r \in JoinReqs : JoinQuiet(r)

\* A handler starting an operation ends every other cleanup's solitude.
Disturbed == [k \in Conns |-> [conn[k] EXCEPT !.alone = FALSE]]

\* Handler runs started and failures suffered so far.
OpsStarted ==
    Cardinality({k \in Conns : conn[k].pc # "idle"})
      + Cardinality({r \in JoinReqs : joinreq[r].pc # "idle"})
      + rolls_started + failures

\* Player ids a new request may carry: ids are interchangeable, so an id
\* is used only after all smaller ids have been.
UsedIds ==
    {game.players[1]}
      \cup {conn[k].player : k \in {k \in Conns : conn[k].pc # "idle"}}
      \cup {joinreq[r].player : r \in {r \in JoinReqs : joinreq[r].pc # "idle"}}
RequestIds == {p \in Players : \A q \in 1..(p - 1) : q \in UsedIds}

\* The outcomes of one repository call by a handler run that is already
\* counted (starting = 0) or starts with this call (starting = 1): it
\* succeeds, or (while the run's budgets last) it fails.
Reachable(starting) ==
    IF failures < MaxFailures /\ OpsStarted + starting < MaxOps
    THEN BOOLEAN ELSE {TRUE}
Failed(reachable) ==
    failures' = IF reachable THEN failures ELSE failures + 1

\* ------------------------------------------------------------ REST
\* create_game_handler: saves the game built by Game::new.
CreateGame ==
    /\ store = None
    /\ store_version = 0
    /\ \E reachable \in Reachable(0) :
          /\ Failed(reachable)
          /\ IF reachable
             THEN /\ store' = Some(game)
                  /\ store_version' = store_version + 1
                  /\ conn' = Disturbed
             ELSE UNCHANGED <<store, store_version, conn>>
    /\ UNCHANGED <<sessions, chan, joinreq, roll_log, game_over_count,
                   rolls_started, game_vars, reg_vars>>

\* join_game_handler up to its save_game call.
JoinLoad(r) ==
    /\ joinreq[r].pc = "idle"
    /\ r > 1 => joinreq[r - 1].pc # "idle"
    /\ OpsStarted < MaxOps
    /\ \E joining_player \in RequestIds, reachable \in Reachable(1) :
          LET l == load_game(reachable)
              d == join_dispatch(l.game[1], joining_player)
          IN /\ Failed(reachable)
             /\ joinreq' = [joinreq EXCEPT ![r] =
                   IF l.result # Ok
                   THEN [pc |-> "done", player |-> joining_player,
                         local |-> None, ver |-> 0, response |-> l.result]
                   ELSE IF d.result # Ok
                   THEN [pc |-> "done", player |-> joining_player,
                         local |-> None, ver |-> 0, response |-> d.result]
                   ELSE [pc |-> "save", player |-> joining_player,
                         local |-> Some(d.game), ver |-> store_version,
                         response |-> "none"]]
    /\ conn' = Disturbed
    /\ UNCHANGED <<store, sessions, chan, store_version, roll_log,
                   game_over_count, rolls_started, game_vars, reg_vars>>

\* join_game_handler from save_game to the response.
JoinSave(r) ==
    /\ joinreq[r].pc = "save"
    /\ \E reachable \in Reachable(0) :
          /\ Failed(reachable)
          /\ IF reachable
             THEN /\ store' = joinreq[r].local
                  /\ store_version' = store_version + 1
                  /\ joinreq' = [joinreq EXCEPT ![r].pc = "done",
                                                ![r].ver = 0,
                                                ![r].response = Ok]
             ELSE /\ joinreq' = [joinreq EXCEPT ![r].pc = "done",
                                                ![r].ver = 0,
                                                ![r].local = None,
                                                ![r].response = "StoreError"]
                  /\ UNCHANGED <<store, store_version>>
    /\ UNCHANGED <<sessions, chan, conn, roll_log, game_over_count,
                   rolls_started, game_vars, reg_vars>>

\* ------------------------------------------------------------ WebSocket
\* handle_socket: validate_connection, then close or go on to register.
Validate(c) ==
    /\ conn[c].pc = "idle"
    /\ c > 1 => conn[c - 1].pc # "idle"
    /\ OpsStarted < MaxOps
    /\ \E player_id \in RequestIds, reachable \in Reachable(1) :
          LET game_check == load_game(reachable)
              admitted == /\ game_check.result = Ok
                          /\ contains(game_check.game[1].players, player_id)
          IN /\ Failed(reachable)
             /\ conn' = [Disturbed EXCEPT ![c] =
                   [IdleConn EXCEPT !.pc = IF admitted THEN "validated"
                                           ELSE "rejected",
                                    !.player = player_id]]
    /\ UNCHANGED <<store, sessions, chan, joinreq, store_version, roll_log,
                   game_over_count, rolls_started, game_vars, reg_vars>>

\* A registration that also resumes a game paused for the player.
Register_resumes(c) ==
    /\ conn[c].pc = "validated"
    /\ sessions' = insert(sessions, conn[c].player, c)
    /\ conn' = [conn EXCEPT ![c].pc = "registered", ![c].rx_open = TRUE]
    /\ store' = IF store = None THEN store
                ELSE Some(reconnect(store[1], conn[c].player).game)
    /\ UNCHANGED <<chan, joinreq, store_version, failures,
                   roll_log, game_over_count, rolls_started, game_vars, reg_vars>>

\* register_player_session: the channel is created and its sender inserted.
Register(c) ==
    /\ conn[c].pc = "validated"
    /\ sessions' = insert(sessions, conn[c].player, c)
    /\ conn' = [conn EXCEPT ![c].pc = "registered", ![c].rx_open = TRUE]
    /\ UNCHANGED <<store, chan, joinreq, store_version, failures,
                   roll_log, game_over_count, rolls_started, game_vars, reg_vars>>

\* register_player_session: the PlayerJoined broadcast.
BroadcastJoined(c) ==
    /\ conn[c].pc = "registered"
    /\ chan' = broadcast_message(sessions, chan, conn,
                   ServerPlayerJoined(conn[c].player, <<"admit", c>>))
    /\ conn' = [conn EXCEPT ![c].pc = "joined"]
    /\ UNCHANGED <<store, sessions, joinreq, store_version, failures,
                   roll_log, game_over_count, rolls_started, game_vars, reg_vars>>

\* handle_socket: the initial GameState sent on the connection's own sender.
SendInitialState(c) ==
    /\ conn[c].pc = "joined"
    /\ \E reachable \in Reachable(0) :
          LET l == load_game(reachable)
          IN /\ Failed(reachable)
             /\ chan' = IF l.result = Ok
                        THEN send(chan, conn, c,
                                  ServerGameState(l.game[1], <<"admit", c>>))
                        ELSE chan
    /\ conn' = [conn EXCEPT ![c].pc = "running"]
    /\ UNCHANGED <<store, sessions, joinreq, store_version, roll_log,
                   game_over_count, rolls_started, game_vars, reg_vars>>

\* The send task ends because writing to the socket failed: the receiver of
\* the channel is dropped while the read loop is still running.
SendTaskEnds(c) ==
    /\ conn[c].pc \in {"running", "roll_save", "roll_events", "roll_state",
                       "roll_error"}
    /\ conn[c].rx_open
    /\ failures < MaxFailures
    /\ OpsStarted < MaxOps
    /\ failures' = failures + 1
    /\ conn' = [conn EXCEPT ![c].rx_open = FALSE]
    /\ chan' = [chan EXCEPT ![c] = <<>>]
    /\ UNCHANGED <<store, sessions, joinreq, store_version, roll_log,
                   game_over_count, rolls_started, game_vars, reg_vars>>

\* handle_roll_command: load_game and game.roll with a ThreadRngRoller.
RollLoad(c) ==
    /\ conn[c].pc = "running"
    /\ rolls_started < MaxRollCmds
    /\ OpsStarted < MaxOps
    /\ rolls_started' = rolls_started + 1
    /\ \E reachable \in Reachable(1) :
          LET l == load_game(reachable)
          IN /\ Failed(reachable)
             /\ IF l.result # Ok
                THEN conn' = Disturbed
                ELSE \E value \in SysRollOutcomes(l.game[1].current_max) :
                       LET r == roll(l.game[1], conn[c].player, value)
                       IN conn' = [Disturbed EXCEPT
                             ![c].cmd = rolls_started + 1,
                             ![c].ver = IF r.result = Ok THEN store_version
                                        ELSE 0,
                             ![c].pc = IF r.result = Ok THEN "roll_save"
                                       ELSE "roll_error",
                             ![c].local = IF r.result = Ok THEN Some(r.game)
                                          ELSE None,
                             ![c].events = r.events,
                             ![c].err = IF r.result = Ok THEN "none"
                                        ELSE r.result]
    /\ UNCHANGED <<store, sessions, chan, joinreq, store_version, roll_log,
                   game_over_count, game_vars, reg_vars>>

\* handle_roll_command: the Err arm, send_error_to_player.
RollError(c) ==
    /\ conn[c].pc = "roll_error"
    /\ chan' = send_error_to_player(sessions, chan, conn, conn[c].player,
                   ServerError(conn[c].err, <<"roll", conn[c].cmd>>))
    /\ conn' = [conn EXCEPT ![c].pc = "running", ![c].err = "none",
                            ![c].cmd = 0]
    /\ UNCHANGED <<store, sessions, joinreq, store_version, failures,
                   roll_log, game_over_count, rolls_started, game_vars, reg_vars>>

\* handle_roll_command: save_game; a failure ends the command.
RollSave(c) ==
    /\ conn[c].pc = "roll_save"
    /\ \E reachable \in Reachable(0) :
          /\ Failed(reachable)
          /\ IF reachable
             THEN /\ store' = conn[c].local
                  /\ store_version' = store_version + 1
                  /\ conn' = [conn EXCEPT ![c].pc = "roll_events",
                                          ![c].ver = 0,
                                          ![c].heard = Registered(sessions)]
             ELSE /\ conn' = [conn EXCEPT ![c].pc = "running",
                                          ![c].ver = 0,
                                          ![c].cmd = 0,
                                          ![c].local = None,
                                          ![c].events = <<>>]
                  /\ UNCHANGED <<store, store_version>>
    /\ UNCHANGED <<sessions, chan, joinreq, roll_log, game_over_count,
                   rolls_started, game_vars, reg_vars>>

\* The next event sent to the roller only.
RollBroadcastEvent_unicast(c) ==
    /\ conn[c].pc = "roll_events"
    /\ LET event == Head(conn[c].events)
       IN /\ chan' = send_error_to_player(sessions, chan, conn, conn[c].player,
                         EventMessage(event, <<"roll", conn[c].cmd>>))
          /\ roll_log' = IF event[1] = "Rolled"
                         THEN Append(roll_log, event[2])
                         ELSE roll_log
          /\ game_over_count' = IF event[1] = "GameOver"
                                THEN game_over_count + 1
                                ELSE game_over_count
    /\ conn' = [conn EXCEPT ![c].events = Tail(conn[c].events),
                            ![c].pc = IF Tail(conn[c].events) = <<>>
                                      THEN "roll_state"
                                      ELSE "roll_events"]
    /\ UNCHANGED <<store, sessions, joinreq, store_version, failures,
                   rolls_started, game_vars, reg_vars>>

\* handle_roll_command: the broadcast of the next event.
RollBroadcastEvent(c) ==
    /\ conn[c].pc = "roll_events"
    /\ LET event == Head(conn[c].events)
       IN /\ chan' = broadcast_message(sessions, chan, conn,
                         EventMessage(event, <<"roll", conn[c].cmd>>))
          /\ roll_log' = IF event[1] = "Rolled"
                         THEN Append(roll_log, event[2])
                         ELSE roll_log
          /\ game_over_count' = IF event[1] = "GameOver"
                                THEN game_over_count + 1
                                ELSE game_over_count
    /\ conn' = [conn EXCEPT ![c].events = Tail(conn[c].events),
                            ![c].pc = IF Tail(conn[c].events) = <<>>
                                      THEN "roll_state"
                                      ELSE "roll_events"]
    /\ UNCHANGED <<store, sessions, joinreq, store_version, failures,
                   rolls_started, game_vars, reg_vars>>

\* handle_roll_command: the closing GameState broadcast.
RollBroadcastState(c) ==
    /\ conn[c].pc = "roll_state"
    /\ chan' = broadcast_message(sessions, chan, conn,
                   ServerGameState(conn[c].local[1], <<"roll", conn[c].cmd>>))
    /\ conn' = [conn EXCEPT ![c].pc = "running", ![c].local = None,
                            ![c].cmd = 0, ![c].heard = {}]
    /\ UNCHANGED <<store, sessions, joinreq, store_version, failures,
                   roll_log, game_over_count, rolls_started, game_vars, reg_vars>>

\* handle_disconnect: the read loop has ended; remove from the session.
DiscUnregister(c) ==
    /\ conn[c].pc = "running"
    /\ sessions' = remove(sessions, conn[c].player)
    /\ conn' = [Disturbed EXCEPT ![c].pc = "disc_load",
                                 ![c].alone = OthersQuiet(c)]
    /\ UNCHANGED <<store, chan, joinreq, store_version, failures,
                   roll_log, game_over_count, rolls_started, game_vars, reg_vars>>

\* handle_socket has returned: the send task is aborted.
Closed(k) ==
    [k EXCEPT !.pc = "closed", !.rx_open = FALSE, !.local = None,
              !.ver = 0, !.alone = FALSE]

\* A cleanup that goes on to save and broadcast unless the game is finished.
DiscLoad_unless_lost(c) ==
    /\ conn[c].pc = "disc_load"
    /\ \E reachable \in Reachable(0) :
          LET l == load_game(reachable)
          IN /\ Failed(reachable)
             /\ conn' = [conn EXCEPT ![c] =
                   IF l.result # Ok
                   THEN Closed(conn[c])
                   ELSE IF ~IsLost(l.game[1].status)
                   THEN [conn[c] EXCEPT
                           !.pc = "disc_save",
                           !.ver = store_version,
                           !.local = Some(pause_game(l.game[1],
                                                     conn[c].player).game)]
                   ELSE Closed(conn[c])]
             /\ chan' = IF l.result = Ok /\ ~IsLost(l.game[1].status)
                        THEN chan
                        ELSE [chan EXCEPT ![c] = <<>>]
    /\ UNCHANGED <<store, sessions, joinreq, store_version, roll_log,
                   game_over_count, rolls_started, game_vars, reg_vars>>

\* handle_disconnect: load_game, the status test and pause_game.
DiscLoad(c) ==
    /\ conn[c].pc = "disc_load"
    /\ \E reachable \in Reachable(0) :
          LET l == load_game(reachable)
          IN /\ Failed(reachable)
             /\ conn' = [conn EXCEPT ![c] =
                   IF l.result # Ok
                   THEN Closed(conn[c])
                   ELSE IF l.game[1].status = InProgress
                   THEN [conn[c] EXCEPT
                           !.pc = "disc_save",
                           !.ver = store_version,
                           !.local = Some(pause_game(l.game[1],
                                                     conn[c].player).game)]
                   ELSE Closed(conn[c])]
             /\ chan' = IF l.result = Ok /\ l.game[1].status = InProgress
                        THEN chan
                        ELSE [chan EXCEPT ![c] = <<>>]
    /\ UNCHANGED <<store, sessions, joinreq, store_version, roll_log,
                   game_over_count, rolls_started, game_vars, reg_vars>>

\* handle_disconnect: save_game, whose result is discarded.
DiscSave(c) ==
    /\ conn[c].pc = "disc_save"
    /\ \E reachable \in Reachable(0) :
          /\ Failed(reachable)
          /\ IF reachable
             THEN /\ store' = conn[c].local
                  /\ store_version' = store_version + 1
             ELSE UNCHANGED <<store, store_version>>
    /\ conn' = [conn EXCEPT ![c].pc = "disc_bcast", ![c].ver = 0]
    /\ UNCHANGED <<sessions, chan, joinreq, roll_log, game_over_count,
                   rolls_started, game_vars, reg_vars>>

\* handle_disconnect: the GameState broadcast; then handle_socket returns.
DiscBroadcast(c) ==
    /\ conn[c].pc = "disc_bcast"
    /\ chan' = [broadcast_message(sessions, chan, conn,
                     ServerGameState(conn[c].local[1], <<"disc", c>>))
                 EXCEPT ![c] = <<>>]
    /\ conn' = [conn EXCEPT ![c] = Closed(conn[c])]
    /\ UNCHANGED <<store, sessions, joinreq, store_version, failures,
                   roll_log, game_over_count, rolls_started, game_vars, reg_vars>>

SysNext ==
    \/ CreateGame
    \/ \E r \in JoinReqs : JoinLoad(r)
    \/ \E r \in JoinReqs : JoinSave(r)
    \/ \E c \in Conns : Validate(c)
    \/ \E c \in Conns : Register(c)
    \/ \E c \in Conns : BroadcastJoined(c)
    \/ \E c \in Conns : SendInitialState(c)
    \/ \E c \in Conns : SendTaskEnds(c)
    \/ \E c \in Conns : RollLoad(c)
    \/ \E c \in Conns : RollError(c)
    \/ \E c \in Conns : RollSave(c)
    \/ \E c \in Conns : RollBroadcastEvent(c)
    \/ \E c \in Conns : RollBroadcastState(c)
    \/ \E c \in Conns : DiscUnregister(c)
    \/ \E c \in Conns : DiscLoad(c)
    \/ \E c \in Conns : DiscSave(c)
    \/ \E c \in Conns : DiscBroadcast(c)

\* The run starts from the game of player 1 (ids are interchangeable).
SysInit == Init /\ game.players = <<1>>

SysSpec == SysInit /\ [][SysNext]_vars

\* Every way a Game value comes to exist: calls on the state machine from
\* Game::new(host), or a run of the server on the game that
\* create_game_handler builds (the game of player 1: ids are
\* interchangeable).
AllNext ==
    \/ SysIdle /\ Next
    \/ game = new(1) /\ last.op = "new" /\ SysNext

AllSpec == Init /\ [][AllNext]_vars

\* Game::roll with a roller that honours the contract of
\* Roller::roll_in_range: the result lies in 1..=current_max.
DoRollRng ==
    \E player_id \in Players, value_to_return \in roll_in_range(game.current_max) :
        LET r == roll(game, player_id, value_to_return)
        IN /\ game' = r.game
           /\ last' = Call("roll", player_id, value_to_return, game,
                           r.result, r.events, r.consulted)
           /\ UNCHANGED join_successes
           /\ UNCHANGED <<sys_vars, reg_vars>>

\* The state machine with contract-honouring rollers, or the server, whose
\* roller is ThreadRngRoller.
RngNext ==
    \/ SysIdle /\ (DoJoin \/ DoReconnect \/ DoPauseGame \/ DoRollRng)
    \/ game = new(1) /\ last.op = "new" /\ SysNext

RngSpec == Init /\ [][RngNext]_vars

\* The Game values held by the store and by the handlers about to save.
HeldGames ==
    {store[1] : x \in {y \in {0} : store # None}}
      \cup {conn[k].local[1] : k \in {k \in Conns : conn[k].local # None}}
      \cup {joinreq[r].local[1] :
                r \in {r \in JoinReqs : joinreq[r].local # None}}

\* =================================================================
\* Properties of the state machine
\* =================================================================

\* C1: in an InProgress game, a roll by the player at turn_index whose
\* roller returns v # 1 succeeds, returns exactly the one event
\* Rolled{player, v}, sets current_max to v, advances turn_index to
\* (turn_index + 1) mod players.len() and leaves the status InProgress.
C1_NonLosingRoll ==
    LET b == last.before
    IN (/\ last.op = "roll"
        /\ b.status = InProgress
        /\ get_current_player(b) = Some(last.player)
        /\ last.value # 1)
       => /\ last.result = Ok
          /\ last.events = <<Rolled(last.player, last.value)>>
          /\ game.current_max = last.value
          /\ game.turn_index = (b.turn_index + 1) % Len(b.players)
          /\ game.status = InProgress

\* C1 witness: the second player has rolled a non-losing value, so the turn
\* wrapped around from index 1 to index 0.
C1_Witness ==
    /\ last.op = "roll"
    /\ last.result = Ok
    /\ last.value \notin {1, InitialMax}
    /\ last.before.turn_index = 1
    /\ game.turn_index = 0
    /\ game.current_max = last.value

\* C2: in an InProgress two-player game, when the current player p rolls and
\* the roller returns 1, the status becomes PlayerLost(p), the events are
\* exactly Rolled{p,1} then GameOver{winner = the player in the other seat,
\* loser = p} (a different id whenever the two seats hold different ids),
\* and turn_index and current_max are unchanged.
C2_LosingRoll ==
    LET b == last.before
        p == last.player
        other == b.players[2 - b.turn_index]
    IN (/\ last.op = "roll"
        /\ b.status = InProgress
        /\ Len(b.players) = 2
        /\ get_current_player(b) = Some(p)
        /\ last.value = 1)
       => /\ game.status = PlayerLost(p)
          /\ last.result = Ok
          /\ last.events = <<Rolled(p, 1), GameOver(other, p)>>
          /\ (b.players[1] # b.players[2] => other # p)
          /\ game.turn_index = b.turn_index
          /\ game.current_max = b.current_max

\* C2 witness: the guest (second seat) rolled 1 after at least one earlier
\* roll, and the host was named the winner.
C2_Witness ==
    /\ last.op = "roll"
    /\ last.value = 1
    /\ last.before.turn_index = 1
    /\ last.before.current_max # InitialMax
    /\ game.players[1] # game.players[2]
    /\ game.status = PlayerLost(game.players[2])
    /\ last.events[2] = GameOver(game.players[1], game.players[2])

\* C3: PlayerLost is terminal: from a game whose status is PlayerLost(p),
\* every call of roll, join, pause_game and reconnect returns an error and
\* leaves status, players, current_max and turn_index as they were.
C3_PlayerLostTerminal ==
    [][IsLost(game.status)
        => /\ last'.op \in {"roll", "join", "pause_game", "reconnect"}
           /\ last'.result \in GameErrors
           /\ game'.status = game.status
           /\ game'.players = game.players
           /\ game'.current_max = game.current_max
           /\ game'.turn_index = game.turn_index]_vars

\* C3 witness: after the game was lost, the winner tried to roll with a
\* roller that would return 1 and was refused.
C3_Witness ==
    /\ IsLost(last.before.status)
    /\ last.op = "roll"
    /\ last.player # last.before.status[2]
    /\ last.player \in {last.before.players[i] : i \in 1..Len(last.before.players)}
    /\ last.value = 1
    /\ last.result = GameFinished

\* C4: join succeeds exactly once: a join from WaitingForPlayers appends the
\* player and moves the status to InProgress; every other join returns
\* GameFull and leaves players unchanged; and since the status is
\* WaitingForPlayers exactly as long as no join has succeeded, no second join
\* ever succeeds.
C4_JoinExactlyOnce ==
    /\ join_successes <= 1
    /\ (join_successes = 0) <=> (game.status = WaitingForPlayers)
    /\ last.op = "join" =>
          IF last.before.status = WaitingForPlayers
          THEN /\ last.result = Ok
               /\ game.players = Append(last.before.players, last.player)
               /\ game.status = InProgress
          ELSE /\ last.result = GameFull
               /\ game.players = last.before.players

\* C4 witness: a join attempted on a paused game, after the one successful
\* join, was refused with GameFull.
C4_Witness ==
    /\ join_successes = 1
    /\ last.op = "join"
    /\ IsPaused(last.before.status)
    /\ last.result = GameFull
    /\ Len(game.players) = 2

\* C5: reconnect(q): PausedForReconnect(p), q = p -> Ok and InProgress;
\* PausedForReconnect(p), q # p -> GameFull and still PausedForReconnect(p);
\* InProgress -> Ok and nothing changes; WaitingForPlayers or PlayerLost ->
\* GamePaused (and nothing changes).
C5_ReconnectOutcomes ==
    LET b == last.before
        q == last.player
    IN last.op = "reconnect" =>
         /\ (IsPaused(b.status) /\ b.status[2] = q)
               => last.result = Ok /\ game.status = InProgress
         /\ (IsPaused(b.status) /\ b.status[2] # q)
               => last.result = GameFull /\ game.status = b.status
         /\ b.status = InProgress => last.result = Ok /\ game = b
         /\ (b.status = WaitingForPlayers \/ IsLost(b.status))
               => last.result = GamePaused /\ game = b

\* C5 witness: the other member of a paused game tried to reconnect and got
\* GameFull.
C5_Witness ==
    /\ last.op = "reconnect"
    /\ IsPaused(last.before.status)
    /\ last.player # last.before.status[2]
    /\ last.player \in {game.players[i] : i \in 1..Len(game.players)}
    /\ last.result = GameFull
    /\ game.status = last.before.status

\* C6: pause_game(p) succeeds only from InProgress, where the status becomes
\* PausedForReconnect(p); from WaitingForPlayers, PlayerLost and an already
\* paused game it fails with GameFinished, and the player the game is paused
\* for is not replaced.
C6_PauseOnlyFromInProgress ==
    LET b == last.before
    IN last.op = "pause_game" =>
         IF b.status = InProgress
         THEN last.result = Ok /\ game.status = PausedForReconnect(last.player)
         ELSE last.result = GameFinished /\ game.status = b.status

\* C6 witness: a second pause, for a different player, hit an already paused
\* game.
C6_Witness ==
    /\ last.op = "pause_game"
    /\ IsPaused(last.before.status)
    /\ last.player # last.before.status[2]
    /\ last.result = GameFinished
    /\ game.status = last.before.status

\* C7: roll checks the status before the turn: whoever calls, roll returns
\* NotEnoughPlayers in WaitingForPlayers, GamePaused in PausedForReconnect
\* and GameFinished in PlayerLost; NotYourTurn is returned only in
\* InProgress, to a caller who is not the player at turn_index.  In all four
\* failure cases the roller is not consulted.
C7_RollStatusBeforeTurn ==
    LET b == last.before
    IN last.op = "roll" =>
         /\ b.status = WaitingForPlayers => last.result = NotEnoughPlayers
         /\ IsPaused(b.status) => last.result = GamePaused
         /\ IsLost(b.status) => last.result = GameFinished
         /\ (b.status = InProgress /\ get_current_player(b) # Some(last.player))
               => last.result = NotYourTurn
         /\ last.result = NotYourTurn
               => /\ b.status = InProgress
                  /\ get_current_player(b) # Some(last.player)
         /\ last.result \in GameErrors => ~last.consulted

\* C7 witness: a member who is not the current player rolled on a paused
\* game and was told GamePaused, not NotYourTurn.
C7_Witness ==
    /\ last.op = "roll"
    /\ IsPaused(last.before.status)
    /\ last.player \in {game.players[i] : i \in 1..Len(game.players)}
    /\ get_current_player(last.before) # Some(last.player)
    /\ last.result = GamePaused
    /\ ~last.consulted

\* C8: the status changes to PlayerLost(x) only in a step that is a
\* successful roll by x whose rolled value is 1.
C8_OnlyRollOfOneLoses ==
    [][(game'.status # game.status /\ IsLost(game'.status))
        => /\ last'.op = "roll"
           /\ last'.result = Ok
           /\ last'.consulted
           /\ last'.value = 1
           /\ game'.status = PlayerLost(last'.player)]_vars

\* C8 witness: the host lost on the very first roll of the game.
C8_Witness ==
    /\ IsLost(game.status)
    /\ last.before.status = InProgress
    /\ last.op = "roll"
    /\ last.player = game.players[1]
    /\ last.before.current_max = InitialMax
    /\ game.status[2] = last.player

\* C9: the only status changes are WaitingForPlayers -> InProgress,
\* InProgress -> PausedForReconnect(p), PausedForReconnect(p) -> InProgress
\* and InProgress -> PlayerLost(p); so WaitingForPlayers is never re-entered,
\* PlayerLost is never left, and PlayerLost is never entered from
\* WaitingForPlayers or PausedForReconnect.
C9_StatusTransitions ==
    [][game'.status # game.status
        => \/ game.status = WaitingForPlayers /\ game'.status = InProgress
           \/ game.status = InProgress /\ IsPaused(game'.status)
           \/ IsPaused(game.status) /\ game'.status = InProgress
           \/ game.status = InProgress /\ IsLost(game'.status)]_vars

\* C9 witness: after at least one roll, a paused game was resumed by the
\* player it was paused for.
C9_Witness ==
    /\ last.op = "reconnect"
    /\ IsPaused(last.before.status)
    /\ game.status = InProgress
    /\ game.current_max # InitialMax
    /\ game.turn_index = 1

\* C10: turn_index < players.len() in every reachable state, so the current
\* player is always defined.
C10_TurnIndexInRange ==
    /\ game.turn_index < Len(game.players)
    /\ get_current_player(game) # None

\* C10 witness: the turn has passed to the last seat of a two-player game.
C10_Witness ==
    /\ last.op = "roll"
    /\ last.result = Ok
    /\ Len(game.players) = 2
    /\ game.turn_index = Len(game.players) - 1


\* =================================================================
\* Properties of the games the program holds
\* =================================================================

\* C11: players.len() <= 2 in every Game reachable from create(host) by
\* state-machine operations, and in every Game that the REST and connection
\* handlers persist (or hold for saving) under any interleaving.
C11_AtMostTwoPlayers ==
    /\ Len(game.players) <= 2
    /\ \A g \in HeldGames : Len(g.players) <= 2

\* C11 witness: two join requests for different guests both loaded the
\* waiting game and both saved; the persisted game has two players.
C11_Witness ==
    /\ \A r \in JoinReqs : joinreq[r].response = Ok /\ joinreq[r].player # 1
    /\ joinreq[1].player # joinreq[2].player
    /\ joinreq[1].local # joinreq[2].local
    /\ store # None
    /\ Len(store[1].players) = 2

\* C12: in every reachable Game (of the state machine, persisted, or held
\* for saving), status = WaitingForPlayers iff players.len() = 1.
C12_WaitingIffOnePlayer ==
    /\ (game.status = WaitingForPlayers) <=> (Len(game.players) = 1)
    /\ \A g \in HeldGames :
          (g.status = WaitingForPlayers) <=> (Len(g.players) = 1)

\* C12 witness: a cleanup has persisted a paused game of two players while
\* a join request holds the resumed game.
C12_Witness ==
    /\ store # None
    /\ IsPaused(store[1].status)
    /\ Len(store[1].players) = 2
    /\ \E r \in JoinReqs : /\ joinreq[r].pc = "save"
                            /\ joinreq[r].local[1].status = InProgress
                            /\ Len(joinreq[r].local[1].players) = 2


\* C13: with rollers whose result lies in [1, max], current_max >= 1 in every
\* reachable Game (of the state machine, persisted, or held for saving), and
\* after every successful roll that did not end the game current_max equals
\* the value just rolled.
C13_CurrentMaxFollowsRoll ==
    /\ game.current_max >= 1
    /\ \A g \in HeldGames : g.current_max >= 1
    /\ (last.op = "roll" /\ last.result = Ok /\ ~IsLost(game.status))
          => game.current_max = last.value
    /\ \A c \in Conns :
          (conn[c].pc = "roll_save" /\ ~IsLost(conn[c].local[1].status))
             => /\ conn[c].events
                     = <<Rolled(conn[c].player, conn[c].local[1].current_max)>>
                /\ conn[c].local[1].current_max >= 1

\* C13 witness: a second successful roll narrowed current_max from 3 to 2.
C13_Witness ==
    /\ last.op = "roll"
    /\ last.result = Ok
    /\ last.before.current_max = 3
    /\ last.value = 2
    /\ game.status = InProgress
    /\ game.current_max = 2


\* =================================================================
\* Properties of the server
\* =================================================================

\* The positions in a channel of the messages of one type sent by one
\* handler run.
Positions(q, type, origin) ==
    {i \in 1..Len(q) : q[i].type = type /\ q[i].origin = origin}

\* The channels that were registered when a roll command had saved and are
\* registered, with a live receiver, at its closing broadcast: registered
\* throughout (a sender removed from the registry is never put back).
Throughout(c) ==
    {k \in conn[c].heard \cap Registered(sessions) : conn[k].rx_open}

\* What one channel holds of a roll command just before and after the
\* closing broadcast: RollResult, GameOver exactly when the roll was 1, then
\* the snapshot last, and the snapshot is the game after that roll.
RollOrdered(q, q_next, origin, post_roll) ==
    LET rolls == Positions(q, "ROLL_RESULT", origin)
        overs == Positions(q, "GAME_OVER", origin)
    IN /\ Cardinality(rolls) = 1
       /\ Positions(q, "GAME_STATE", origin) = {}
       /\ q_next = Append(q, ServerGameState(post_roll, origin))
       /\ \A i \in rolls :
             /\ i < Len(q_next)
             /\ IF q[i].rolled_value = 1
                THEN /\ Cardinality(overs) = 1
                     /\ \A j \in overs : i < j /\ j < Len(q_next)
                                         /\ q[j].loser_id = q[i].player_id
                     /\ post_roll.status = PlayerLost(q[i].player_id)
                ELSE /\ overs = {}
                     /\ post_roll.status = InProgress
                     /\ post_roll.current_max = q[i].rolled_value
                     /\ get_current_player(post_roll) # Some(q[i].player_id)

\* C14: at the closing GameState broadcast of every successful roll command,
\* each channel registered throughout the command already holds that
\* command's RollResult (and then its GameOver when the roll was 1), gains
\* the snapshot behind them, and the snapshot is the post-roll game; in no
\* channel does a snapshot of a command precede an event of that command.
C14_EventsBeforeSnapshot ==
    /\ [][\A c \in Conns :
            (conn[c].pc = "roll_state" /\ conn'[c].pc = "running")
              => \A k \in Throughout(c) :
                    RollOrdered(chan[k], chan'[k], <<"roll", conn[c].cmd>>,
                                conn[c].local[1])]_vars
    /\ [](\A k \in Conns, n \in 1..MaxRollCmds :
            \A i \in Positions(chan[k], "GAME_STATE", <<"roll", n>>) :
               \A j \in 1..Len(chan[k]) :
                  (chan[k][j].origin = <<"roll", n>> /\ j # i) => j < i)

\* C14 witness: two players are connected; the channel of the player who did
\* not roll holds RollResult, GameOver and the snapshot of a lost game, in
\* that order, all of the same command.
C14_Witness ==
    \E k \in Conns, n \in 1..MaxRollCmds :
        LET q == chan[k]
            m == Len(q)
        IN /\ m >= 3
           /\ q[m].type = "GAME_STATE" /\ q[m].origin = <<"roll", n>>
           /\ q[m - 1].type = "GAME_OVER" /\ q[m - 1].origin = <<"roll", n>>
           /\ q[m - 2].type = "ROLL_RESULT" /\ q[m - 2].origin = <<"roll", n>>
           /\ q[m - 2].player_id # conn[k].player
           /\ k \in Registered(sessions)


\* C15: mutations of the game are serialized: every save (by a join request,
\* a roll command or a disconnect cleanup) writes a Game derived from the
\* snapshot that is persisted at the time of the save, i.e. nothing was
\* written between the saver's load and its save.
C15_NoStaleSave ==
    [][/\ \A r \in JoinReqs :
            (joinreq[r].pc = "save" /\ joinreq'[r].response = Ok)
               => joinreq[r].ver = store_version
       /\ \A c \in Conns :
            (conn[c].pc = "roll_save" /\ conn'[c].pc = "roll_events")
               => conn[c].ver = store_version
       /\ \A c \in Conns :
            (conn[c].pc = "disc_save" /\ store_version' # store_version)
               => conn[c].ver = store_version]_vars

\* C16: the successful rolls, in the order of their RollResult broadcasts,
\* alternate between the players: no player has two consecutive successful
\* rolls.
C16_RollsAlternate ==
    \A i \in 1..(Len(roll_log) - 1) : roll_log[i] # roll_log[i + 1]

\* C17: the game ends exactly once: once a Game with status PlayerLost(p) is
\* persisted, every later persisted Game has status PlayerLost(p), and at
\* most one GameOver message is ever broadcast.
C17_EndsExactlyOnce ==
    /\ [][(store # None /\ IsLost(store[1].status))
            => (store' # None /\ store'[1].status = store[1].status)]_vars
    /\ [](game_over_count <= 1)


\* The player ids that have a sender in the registry.
RegisteredPlayers(sess) == IF sess = None THEN {} ELSE DOMAIN sess[1]

\* C18: when a connection terminates while the persisted game is InProgress
\* and no other handler runs during the cleanup (whose load and save
\* succeed): the cleanup removes the player's sender from the registry,
\* persists the same game with status PausedForReconnect(that player), and
\* appends a GameState snapshot carrying that persisted, paused game to the
\* channel of every player still registered (with a live receiver), and to
\* no other channel.
C18_DisconnectPauses ==
    [][\A c \in Conns :
        LET p == conn[c].player
        IN /\ (conn[c].pc = "running" /\ conn'[c].pc = "disc_load")
                => /\ p \notin RegisteredPlayers(sessions')
                   /\ c \notin Registered(sessions')
                   /\ \A q \in RegisteredPlayers(sessions) \ {p} :
                         /\ q \in RegisteredPlayers(sessions')
                         /\ sessions'[1][q] = sessions[1][q]
           /\ (/\ conn[c].pc = "disc_load" /\ conn[c].alone
               /\ conn'[c].pc # "disc_load"
               /\ failures' = failures
               /\ store # None /\ store[1].status = InProgress)
                => /\ conn'[c].pc = "disc_save"
                   /\ conn'[c].alone
                   /\ conn'[c].local
                        = Some([store[1] EXCEPT
                                  !.status = PausedForReconnect(p)])
           /\ (/\ conn[c].pc = "disc_save" /\ conn[c].alone
               /\ conn'[c].pc # "disc_save"
               /\ failures' = failures)
                => /\ store[1].status = InProgress
                   /\ store' = Some([store[1] EXCEPT
                                       !.status = PausedForReconnect(p)])
                   /\ conn'[c].pc = "disc_bcast"
                   /\ conn'[c].local = store'
                   /\ sessions' = sessions
           /\ (/\ conn[c].pc = "disc_bcast" /\ conn[c].alone
               /\ conn'[c].pc # "disc_bcast"
               /\ store = conn[c].local)
                => /\ store' = store
                   /\ store[1].status = PausedForReconnect(p)
                   /\ p \notin RegisteredPlayers(sessions)
                   /\ conn'[c].pc = "closed"
                   /\ \A k \in Conns \ {c} :
                         chan'[k] =
                           IF k \in Registered(sessions) /\ conn[k].rx_open
                           THEN Append(chan[k],
                                       ServerGameState(store[1], <<"disc", c>>))
                           ELSE chan[k]
                   /\ chan'[c] = <<>>]_vars

\* C18 witness: with both players connected and nothing else going on, one
\* connection ended; the game is persisted as paused for its player, who is
\* no longer registered, and the other player's channel ends with the
\* paused snapshot.
C18_Witness ==
    \E c \in Conns, k \in Conns :
        /\ conn[c].pc = "closed"
        /\ conn[k].pc = "running"
        /\ conn[k].player # conn[c].player
        /\ failures = 0 /\ rolls_started = 0 /\ store_version = 3
        /\ store[1].status = PausedForReconnect(conn[c].player)
        /\ RegisteredPlayers(sessions) = {conn[k].player}
        /\ chan[c] = <<>>
        /\ Len(chan[k]) > 0
        /\ chan[k][Len(chan[k])] = ServerGameState(store[1], <<"disc", c>>)


\* C19: when the game a disconnect cleanup loads is WaitingForPlayers,
\* PausedForReconnect(anyone) or PlayerLost, the cleanup has unregistered
\* the player and ends there: no save, no broadcast, the persisted Game is
\* unchanged (a game paused for one player stays paused for that player).
C19_CleanupIdempotent ==
    [][\A c \in Conns :
        /\ (conn[c].pc = "running" /\ conn'[c].pc = "disc_load")
             => /\ conn[c].player \notin RegisteredPlayers(sessions')
                /\ store' = store /\ chan' = chan
        /\ (/\ conn[c].pc = "disc_load" /\ conn'[c].pc # "disc_load"
            /\ failures' = failures
            /\ store # None /\ store[1].status # InProgress)
             => /\ conn'[c].pc = "closed"
                /\ store' = store
                /\ store_version' = store_version
                /\ sessions' = sessions
                /\ \A k \in Conns \ {c} : chan'[k] = chan[k]
                /\ chan'[c] = <<>>]_vars

\* C19 witness: both players were connected; the first disconnect paused the
\* game for its player, the second disconnect found it paused and left it
\* paused for the first player, saving and broadcasting nothing.
C19_Witness ==
    \E c \in Conns, k \in Conns :
        /\ conn[c].pc = "closed" /\ conn[k].pc = "closed"
        /\ conn[c].player # conn[k].player
        /\ failures = 0 /\ rolls_started = 0 /\ store_version = 3
        /\ store[1].status = PausedForReconnect(conn[k].player)
        /\ RegisteredPlayers(sessions) = {}
        /\ \A r \in JoinReqs : joinreq[r].pc = "done" => joinreq[r].player = 2


\* The players of the persisted game (none when no game is persisted).
PersistedPlayers ==
    IF store = None THEN {}
    ELSE {store[1].players[i] : i \in 1..Len(store[1].players)}

\* The PlayerJoined messages, in any channel, announcing connection c.
JoinedAnnounced(c) ==
    \E k \in Conns :
        Positions(chan[k], "PLAYER_JOINED", <<"admit", c>>) # {}

\* C20: a connection goes on to registration only if, when it is validated,
\* load_game succeeds and its player id is in the persisted Game.players;
\* otherwise (game absent, load failure, not a member) it is closed for
\* good: it is never registered, no PlayerJoined is broadcast for it, and
\* its validation changes neither the persisted game, the registry nor any
\* channel.  Only validated connections are registered and announced.
C20_AdmissionRequiresMembership ==
    /\ [][\A c \in Conns :
            /\ (conn[c].pc = "idle" /\ conn'[c].pc # "idle")
                 => /\ conn'[c].pc \in {"validated", "rejected"}
                    /\ (conn'[c].pc = "validated")
                          <=> (/\ failures' = failures
                               /\ conn'[c].player \in PersistedPlayers)
                    /\ store' = store /\ store_version' = store_version
                    /\ sessions' = sessions /\ chan' = chan
            /\ conn[c].pc = "rejected" => conn'[c] = conn[c]
            /\ (c \in Registered(sessions') /\ c \notin Registered(sessions))
                 => conn[c].pc = "validated"
            /\ (JoinedAnnounced(c)' /\ ~JoinedAnnounced(c))
                 => conn[c].pc = "registered"]_vars
    /\ [](\A c \in Conns :
            conn[c].pc \in {"idle", "rejected"}
              => /\ c \notin Registered(sessions)
                 /\ ~JoinedAnnounced(c)
                 /\ chan[c] = <<>>
                 /\ ~conn[c].rx_open)

\* C20 witness: with the two-player game persisted and the store working,
\* a member is connected and registered while the connection of a
\* non-member has been closed, unregistered and unannounced.
C20_Witness ==
    \E c \in Conns, k \in Conns :
        /\ failures = 0
        /\ store # None
        /\ Len(store[1].players) = 2
        /\ conn[c].pc = "rejected"
        /\ conn[c].player \notin PersistedPlayers
        /\ conn[k].pc = "running"
        /\ conn[k].player \in PersistedPlayers
        /\ Registered(sessions) = {k}
        /\ ~JoinedAnnounced(c)


\* C21: when Game::roll rejects a ROLL command (NotYourTurn, GamePaused,
\* GameFinished, NotEnoughPlayers) of a connection whose transport is alive,
\* exactly one Error message naming the failure is enqueued, on a channel of
\* the originating player and on no other channel; nothing is saved, the
\* registry is unchanged and the connection goes back to reading commands.
C21_RejectedRollPrivateError ==
    [][\A c \in Conns :
        /\ (conn[c].pc = "running" /\ conn'[c].pc = "roll_error")
             => /\ conn'[c].err \in {NotYourTurn, GamePaused, GameFinished,
                                     NotEnoughPlayers}
                /\ store' = store /\ store_version' = store_version
                /\ sessions' = sessions /\ chan' = chan
        /\ (conn[c].pc = "roll_error" /\ conn'[c].pc # "roll_error"
              /\ conn[c].rx_open)
             => /\ \E k \in Conns :
                     /\ conn[k].player = conn[c].player
                     /\ chan'[k] = Append(chan[k],
                                          ServerError(conn[c].err,
                                                      <<"roll", conn[c].cmd>>))
                     /\ \A j \in Conns \ {k} : chan'[j] = chan[j]
                /\ store' = store /\ store_version' = store_version
                /\ sessions' = sessions
                /\ conn'[c].pc = "running"]_vars


\* One message of the given type has been appended to a channel.
Gained(q, q_next, type) ==
    /\ Len(q_next) = Len(q) + 1
    /\ SubSeq(q_next, 1, Len(q)) = q
    /\ q_next[Len(q_next)].type = type

\* C22: when the store fails during a ROLL command (load_game fails, or
\* save_game fails after a valid roll) of a registered connection whose
\* transport is alive, the acting player gets a private Error message, no
\* other channel gets anything, and the persisted game is unchanged.
C22_StoreFailurePrivateError ==
    [][/\ \A c \in Conns :
            (/\ conn[c].pc = "roll_save" /\ conn'[c].pc = "running"
             /\ c \in Registered(sessions) /\ conn[c].rx_open)
               => /\ Gained(chan[c], chan'[c], "ERROR")
                  /\ \A j \in Conns \ {c} : chan'[j] = chan[j]
                  /\ store' = store
       /\ (rolls_started' # rolls_started /\ failures' # failures
             /\ \A c \in Conns : conn[c].pc = "running"
                                   => (c \in Registered(sessions)
                                       /\ conn[c].rx_open))
               => /\ \E c \in Conns :
                       /\ conn[c].pc = "running"
                       /\ Gained(chan[c], chan'[c], "ERROR")
                       /\ \A j \in Conns \ {c} : chan'[j] = chan[j]
                  /\ store' = store]_vars


\* C23: a join request whose load succeeds dispatches on the persisted
\* status and membership: waiting and not a member -> Game::join; waiting
\* and already a member (the host) -> success with the game as loaded; any
\* other status and a member -> Game::reconnect, whose error is the
\* response; any other status and not a member -> Forbidden.  A request
\* that ends in an error (of the dispatch, or of the store) saves nothing,
\* and a finished request does nothing more.
C23_JoinDispatch ==
    [][\A r \in JoinReqs :
        LET p == joinreq'[r].player
            member == p \in PersistedPlayers
            waiting == store[1].status = WaitingForPlayers
            held == joinreq'[r].local
            answer == joinreq'[r].response
        IN /\ (joinreq[r].pc = "idle" /\ joinreq'[r].pc # "idle")
                => /\ store' = store /\ store_version' = store_version
                   /\ (store # None /\ failures' = failures) =>
                        IF waiting /\ ~member
                        THEN /\ joinreq'[r].pc = "save"
                             /\ held = Some(join(store[1], p).game)
                             /\ held[1].players = Append(store[1].players, p)
                        ELSE IF waiting
                        THEN joinreq'[r].pc = "save" /\ held = store
                        ELSE IF member
                        THEN LET rc == reconnect(store[1], p)
                             IN IF rc.result = Ok
                                THEN /\ joinreq'[r].pc = "save"
                                     /\ held = Some(rc.game)
                                ELSE /\ joinreq'[r].pc = "done"
                                     /\ answer = rc.result
                                     /\ answer \in {GameFull, GamePaused}
                        ELSE joinreq'[r].pc = "done" /\ answer = "Forbidden"
                   /\ (store = None /\ failures' = failures)
                        => joinreq'[r].pc = "done" /\ answer = "GameNotFound"
                   /\ failures' # failures
                        => joinreq'[r].pc = "done" /\ answer = "StoreError"
           /\ (joinreq[r].pc = "save" /\ joinreq'[r].pc # "save")
                => /\ joinreq'[r].pc = "done"
                   /\ IF failures' = failures
                      THEN answer = Ok /\ store' = joinreq[r].local
                      ELSE answer = "StoreError" /\ store' = store
           /\ joinreq[r].pc = "done" => joinreq'[r] = joinreq[r]]_vars

\* C23 witness: the guest has joined through one request, and a request by
\* a third player on the paired game has been answered Forbidden, the
\* persisted game still being the one the guest's request saved.
C23_Witness ==
    \E r \in JoinReqs, q \in JoinReqs :
        /\ joinreq[r].pc = "done" /\ joinreq[r].response = Ok
        /\ joinreq[r].player # 1
        /\ joinreq[q].pc = "done" /\ joinreq[q].response = "Forbidden"
        /\ joinreq[q].player \notin PersistedPlayers
        /\ store = joinreq[r].local
        /\ store_version = 2


\* The entries of a player list are pairwise distinct.
Distinct(players) ==
    \A i \in 1..Len(players), j \in 1..Len(players) :
        i # j => players[i] # players[j]

\* C24: in every Game the create and join handlers persist (or hold for
\* saving), under any interleaving, the entries of players are pairwise
\* distinct; and a request carrying the id of a member of the waiting game
\* (the host) is not an error: it holds the game as loaded and, the store
\* working, is answered with success.
C24_NoDuplicatePlayers ==
    /\ [](\A g \in HeldGames : Distinct(g.players))
    /\ [][\A r \in JoinReqs :
            /\ (/\ joinreq[r].pc = "idle" /\ joinreq'[r].pc # "idle"
                /\ failures' = failures /\ store # None
                /\ store[1].status = WaitingForPlayers
                /\ joinreq'[r].player \in PersistedPlayers)
                 => /\ joinreq'[r].pc = "save"
                    /\ joinreq'[r].local = store
            /\ (/\ joinreq[r].pc = "save" /\ joinreq'[r].pc # "save"
                /\ failures' = failures)
                 => joinreq'[r].response = Ok]_vars

\* C24 witness: two requests carried the same new player id and both loaded
\* the waiting game; one has saved and been answered with success, the other
\* is about to save its own copy, and the persisted players are distinct.
C24_Witness ==
    /\ joinreq[1].pc = "done" /\ joinreq[1].response = Ok
    /\ joinreq[2].pc = "save" /\ joinreq[2].ver = 1
    /\ joinreq[1].player = 2 /\ joinreq[2].player = 2
    /\ store_version = 2
    /\ store[1].players = <<1, 2>>
    /\ joinreq[2].local[1].players = <<1, 2>>


\* C25: on admission of a connection c of player p: first p's sender is
\* inserted in the registry; then PlayerJoined{p} is enqueued on every
\* registered channel, c's own included; then the persisted GameState (when
\* it loads) is enqueued on c's channel only.  So on c's channel the
\* PlayerJoined{p} of this admission precedes the initial snapshot, and no
\* other channel ever holds that snapshot.
C25_AdmissionOrder ==
    /\ [][\A c \in Conns :
            LET p == conn[c].player
                origin == <<"admit", c>>
            IN /\ (conn[c].pc = "validated" /\ conn'[c].pc # "validated")
                    => /\ conn'[c].pc = "registered"
                       /\ sessions' # None
                       /\ p \in RegisteredPlayers(sessions')
                       /\ sessions'[1][p] = c
                       /\ chan' = chan /\ store' = store
               /\ (conn[c].pc = "registered" /\ conn'[c].pc # "registered")
                    => /\ conn'[c].pc = "joined"
                       /\ c \in Registered(sessions)
                       /\ \A k \in Conns :
                             chan'[k] =
                               IF k \in Registered(sessions) /\ conn[k].rx_open
                               THEN Append(chan[k], ServerPlayerJoined(p, origin))
                               ELSE chan[k]
                       /\ sessions' = sessions /\ store' = store
               /\ (conn[c].pc = "joined" /\ conn'[c].pc # "joined"
                     /\ failures' = failures /\ store # None)
                    => /\ conn'[c].pc = "running"
                       /\ Positions(chan[c], "PLAYER_JOINED", origin) # {}
                       /\ chan'[c] = Append(chan[c],
                                            ServerGameState(store[1], origin))
                       /\ \A k \in Conns \ {c} : chan'[k] = chan[k]
                       /\ sessions' = sessions /\ store' = store]_vars
    /\ [](\A c \in Conns, k \in Conns :
            \A i \in Positions(chan[k], "GAME_STATE", <<"admit", c>>) :
               /\ k = c
               /\ \E j \in Positions(chan[k], "PLAYER_JOINED", <<"admit", c>>) :
                     j < i)

\* ---------------------------------------------------------------------
\* The session registry through its interface: several games, every
\* registry operation taken whole (the locks make each one atomic with
\* respect to the others).
\* ---------------------------------------------------------------------

\* sessions.get(&game_id)
get(reg, game_id) == reg[game_id]

\* broadcast_message(state, game_id, message)
broadcast_to_game(reg, ch, cn, game_id, message) ==
    broadcast_message(get(reg, game_id), ch, cn, message)

\* register_player_session: a fresh channel, the insertion under the
\* (possibly new) session of the game, then the PLAYER_JOINED broadcast.
RegRegister(t) ==
    /\ task[t].pc = "idle"
    /\ \E g \in Games, p \in Players :
          LET reg == [registry EXCEPT ![g] = insert(@, p, t)]
              tk == [task EXCEPT ![t] = [@ EXCEPT !.pc = "running",
                                                  !.game = g,
                                                  !.player = p,
                                                  !.rx_open = TRUE]]
          IN /\ registry' = reg
             /\ task' = tk
             /\ outbox' = broadcast_to_game(reg, outbox, tk, g,
                              ServerPlayerJoined(p, <<"register", t>>))
    /\ UNCHANGED <<sys_vars, game_vars>>

\* The removal in handle_disconnect; the connection's receiver goes with
\* the connection.
RegUnregister(t) ==
    /\ task[t].pc = "running"
    /\ registry' = [registry EXCEPT
                       ![task[t].game] = remove(@, task[t].player)]
    /\ task' = [task EXCEPT ![t] = [@ EXCEPT !.pc = "done",
                                            !.rx_open = FALSE]]
    /\ UNCHANGED <<outbox, sys_vars, game_vars>>

\* The send task of a connection ends and drops the receiver while the
\* sender is still stored in the registry.
RegRxDrop(t) ==
    /\ task[t].pc = "running"
    /\ task[t].rx_open
    /\ task' = [task EXCEPT ![t] = [@ EXCEPT !.rx_open = FALSE]]
    /\ UNCHANGED <<registry, outbox, sys_vars, game_vars>>

\* The caller's count of registry sends goes up by one.
Counted(t) == [task EXCEPT ![t] = [@ EXCEPT !.cmds = @ + 1]]

\* broadcast_message(state, game_id, message), called by task t for any
\* game and message.
RegBroadcast(t, g, message) ==
    /\ task[t].cmds < MaxSends
    /\ outbox' = broadcast_to_game(registry, outbox, task, g, message)
    /\ task' = Counted(t)
    /\ UNCHANGED <<registry, sys_vars, game_vars>>

\* send_error_to_player(state, game_id, player_id, msg), called by task t.
RegSendError(t, g, p) ==
    /\ task[t].cmds < MaxSends
    /\ outbox' = send_error_to_player(get(registry, g), outbox, task, p,
                     ServerError("rejected", <<"send_error", g, p>>))
    /\ task' = Counted(t)
    /\ UNCHANGED <<registry, sys_vars, game_vars>>

\* The messages the registry interface is driven with.
RegMessages(g) == {ServerGameState(game, <<"broadcast", g>>)}

RegistryNext ==
    \/ \E t \in Tasks : RegRegister(t)
    \/ \E t \in Tasks : RegUnregister(t)
    \/ \E t \in Tasks : RegRxDrop(t)
    \/ \E t \in Tasks, g \in Games : \E message \in RegMessages(g) :
          RegBroadcast(t, g, message)
    \/ \E t \in Tasks, g \in Games, p \in Players : RegSendError(t, g, p)

RegistrySpec == Init /\ [][RegistryNext]_vars

\* Tasks whose sender is stored under the game in the registry.
StoredUnder(g) ==
    IF registry[g] = None THEN {}
    ELSE {k \in Tasks :
             \E p \in DOMAIN registry[g][1] : registry[g][1][p] = k}

\* C26: a broadcast of a message to a game appends one copy of the message
\* to the channel of every sender stored under that game whose receiver is
\* still there, leaves every other channel (closed ones, and those of other
\* games) as it was, goes on past closed receivers, and changes nothing at
\* all when the game has no registry entry.
C26_BroadcastEffect ==
    [][\A t \in Tasks, g \in Games : \A message \in RegMessages(g) :
          RegBroadcast(t, g, message) =>
              /\ \A k \in Tasks :
                    outbox'[k] =
                        IF k \in StoredUnder(g) /\ task[k].rx_open
                        THEN Append(outbox[k], message)
                        ELSE outbox[k]
              /\ registry[g] = None => outbox' = outbox
              /\ registry' = registry
              /\ \A k \in Tasks :
                    /\ task'[k].rx_open = task[k].rx_open
                    /\ task'[k].pc = task[k].pc]_vars

\* A broadcast to one game has reached a live channel of that game while a
\* closed channel of the same game and a channel of another game got
\* nothing.
C26_Witness ==
    \E a \in Tasks, b \in Tasks :
        /\ a # b
        /\ task[a].pc = "running" /\ task[a].rx_open
        /\ \E i \in DOMAIN outbox[a] :
              outbox[a][i].origin = <<"broadcast", task[a].game>>
        /\ task[b].pc = "running"
        /\ \A i \in DOMAIN outbox[b] : outbox[b][i].type # "GAME_STATE"
        /\ \E g \in Games : registry[g] = None

\* The game a create request of the host must yield.
Fresh(host_id) ==
    [players |-> <<host_id>>, current_max |-> 1000, turn_index |-> 0,
     status |-> <<"WaitingForPlayers">>]

\* C27: create(host) yields players = [host], WaitingForPlayers,
\* current_max = 1000, turn_index = 0 with the host as current player; the
\* create request saves exactly that game before it answers, so nothing is
\* stored before the answer, and once it has answered a load finds a game
\* (the created one as long as no later save has replaced it).
C27_CreateYieldsFreshGame ==
    /\ last.op = "new" =>
          /\ game = Fresh(last.player)
          /\ get_current_player(game) = Some(last.player)
    /\ store_version = 0 => store = None
    /\ store_version >= 1 => load_game(TRUE).result = "Ok"
    /\ store_version = 1 =>
          /\ store = Some(Fresh(1))
          /\ load_game(TRUE).game = Some(Fresh(1))

\* The create request has answered and a later request has loaded the
\* created game.
C27_Witness ==
    /\ last.op = "new"
    /\ store_version = 1
    /\ store = Some(game)
    /\ \E r \in JoinReqs : joinreq[r].pc = "save" /\ joinreq[r].ver = 1

\* The errors each state-machine operation may return.
ErrorsOf(op) ==
    CASE op = "join" -> {"GameFull"}
      [] op = "reconnect" -> {"GameFull", "GamePaused"}
      [] op = "pause_game" -> {"GameFinished"}
      [] op = "roll" -> {"NotEnoughPlayers", "GamePaused", "GameFinished",
                         "NotYourTurn"}
      [] OTHER -> {}

\* C30: a state-machine operation that returns an error returns one of the
\* errors of that operation and leaves players, current_max, turn_index and
\* status exactly as they were before the call.
C30_ErrorsChangeNothing ==
    last.result # "Ok" =>
        /\ last.result \in ErrorsOf(last.op)
        /\ game.players = last.before.players
        /\ game.current_max = last.before.current_max
        /\ game.turn_index = last.before.turn_index
        /\ game.status = last.before.status

\* A roll out of turn has been refused on a game in progress whose
\* current_max had already been lowered.
C30_Witness ==
    /\ last.op = "roll"
    /\ last.result = "NotYourTurn"
    /\ Len(game.players) = 2
    /\ game.current_max < 1000
    /\ game = last.before

\* ---------------------------------------------------------------------
\* The WebSocket handlers step by step over the session registry, with the
\* two levels of tokio::sync::RwLock (sessions, then session.players) and
\* every store call as a position of its own.  The store's answers are
\* free: what matters here is where a task stands while it waits for one.
\* ---------------------------------------------------------------------

\* Connection identities are interchangeable: the t-th connection takes
\* one of the first t games and players.
TaskGames(t) == {g \in Games : g <= t}
TaskPlayers(t) == {p \in Players : p <= t}

\* GameSession::default(): a session with no players.
EmptySession == Some([pid \in {} |-> 0])

\* sessions.read() / sessions.write() can be granted to t.
OuterFreeForRead(t) == \A u \in Tasks \ {t} : task[u].outer # "write"
OuterFreeForWrite(t) == \A u \in Tasks \ {t} : task[u].outer = "none"

\* session.players.read() / .write() of game g can be granted to t.
InnerFreeForRead(t, g) ==
    \A u \in Tasks \ {t} : ~(task[u].game = g /\ task[u].inner = "write")
InnerFreeForWrite(t, g) ==
    \A u \in Tasks \ {t} : ~(task[u].game = g /\ task[u].inner # "none")

\* Task t moves to pc with the given locks.
At(t, pc, outer, inner) ==
    [task EXCEPT ![t] = [@ EXCEPT !.pc = pc, !.outer = outer,
                                  !.inner = inner]]

\* handle_socket is entered for a game and a player.
LkConnect(t) ==
    /\ task[t].pc = "idle"
    /\ \E g \in TaskGames(t), p \in TaskPlayers(t) :
          task' = [task EXCEPT ![t] = [@ EXCEPT !.pc = "validate",
                                               !.game = g, !.player = p]]
    /\ UNCHANGED <<registry, outbox, sys_vars, game_vars>>

\* validate_connection: load_game answers; the connection is admitted or
\* closed.  An admitted connection gets its channel.
LkValidate(t) ==
    /\ task[t].pc = "validate"
    /\ \E admitted \in BOOLEAN :
          task' = [task EXCEPT ![t] =
                      IF admitted
                      THEN [@ EXCEPT !.pc = "reg_outer", !.rx_open = TRUE]
                      ELSE [@ EXCEPT !.pc = "done"]]
    /\ UNCHANGED <<registry, outbox, sys_vars, game_vars>>

\* register_player_session: sessions.write() is granted; entry(game_id)
\* .or_insert_with(GameSession::default).
LkRegOuter(t) ==
    /\ task[t].pc = "reg_outer"
    /\ OuterFreeForWrite(t)
    /\ registry' = [registry EXCEPT ![task[t].game] =
                       IF @ = None THEN EmptySession ELSE @]
    /\ task' = At(t, "reg_inner", "write", "none")
    /\ UNCHANGED <<outbox, sys_vars, game_vars>>

\* register_player_session: session.players.write() is granted.
LkRegInner(t) ==
    /\ task[t].pc = "reg_inner"
    /\ InnerFreeForWrite(t, task[t].game)
    /\ task' = At(t, "reg_insert", "write", "write")
    /\ UNCHANGED <<registry, outbox, sys_vars, game_vars>>

\* An insertion that drops the sessions guard and keeps the players guard.
LkRegInsert_keeps_inner(t) ==
    /\ task[t].pc = "reg_insert"
    /\ registry' = [registry EXCEPT ![task[t].game] =
                       insert(@, task[t].player, t)]
    /\ task' = [At(t, "bc_outer", "none", "write") EXCEPT
                   ![t].ret = "init_load"]
    /\ UNCHANGED <<outbox, sys_vars, game_vars>>

\* register_player_session: insert(player_id, sender_tx); both guards are
\* dropped at the end of the block; broadcast_message is called next.
LkRegInsert(t) ==
    /\ task[t].pc = "reg_insert"
    /\ registry' = [registry EXCEPT ![task[t].game] =
                       insert(@, task[t].player, t)]
    /\ task' = [At(t, "bc_outer", "none", "none") EXCEPT
                   ![t].ret = "init_load"]
    /\ UNCHANGED <<outbox, sys_vars, game_vars>>

\* The message of the broadcast task t is in, told by where it returns to.
LkMessage(t) ==
    CASE task[t].ret = "init_load" ->
             ServerPlayerJoined(task[t].player, <<"task", t>>)
      [] task[t].ret = "rl_state" ->
             ServerRollResult(task[t].player, game.current_max,
                              <<"task", t>>)
      [] OTHER -> ServerGameState(game, <<"task", t, task[t].ret>>)

\* broadcast_message: sessions.read() is granted; sessions.get(&game_id)
\* finds the session or the function returns.
LkBcOuter(t) ==
    /\ task[t].pc = "bc_outer"
    /\ OuterFreeForRead(t)
    /\ task' = IF get(registry, task[t].game) = None
               THEN [At(t, IF task[t].ret = "rl_state" THEN "bc_outer"
                                                       ELSE task[t].ret,
                        "none", "none") EXCEPT
                        ![t].ret = IF task[t].ret = "rl_state"
                                   THEN "running" ELSE "none"]
               ELSE At(t, "bc_inner", "read", "none")
    /\ UNCHANGED <<registry, outbox, sys_vars, game_vars>>

\* broadcast_message: session.players.read() is granted.
LkBcInner(t) ==
    /\ task[t].pc = "bc_inner"
    /\ InnerFreeForRead(t, task[t].game)
    /\ task' = At(t, "bc_send", "read", "read")
    /\ UNCHANGED <<registry, outbox, sys_vars, game_vars>>

\* broadcast_message: the send loop; both guards are dropped on return.
\* After the event of a roll the caller broadcasts the snapshot.
LkBcSend(t) ==
    /\ task[t].pc = "bc_send"
    /\ outbox' = broadcast_to_game(registry, outbox, task, task[t].game,
                                   LkMessage(t))
    /\ task' = [At(t, IF task[t].ret = "rl_state" THEN "bc_outer"
                                                  ELSE task[t].ret,
                   "none", "none") EXCEPT
                   ![t].ret = IF task[t].ret = "rl_state"
                              THEN "running" ELSE "none"]
    /\ UNCHANGED <<registry, sys_vars, game_vars>>

\* handle_socket: load_game answers; on Ok the snapshot goes to the
\* connection's own sender.
LkInitLoad(t) ==
    /\ task[t].pc = "init_load"
    /\ \E ok \in BOOLEAN :
          outbox' = IF ok
                    THEN send(outbox, task, t,
                              ServerGameState(game, <<"task", t, "init">>))
                    ELSE outbox
    /\ task' = At(t, "running", "none", "none")
    /\ UNCHANGED <<registry, sys_vars, game_vars>>

\* The send task ends and drops the receiver.
LkRxDrop(t) ==
    /\ task[t].pc = "running"
    /\ task[t].rx_open
    /\ task' = [task EXCEPT ![t] = [@ EXCEPT !.rx_open = FALSE]]
    /\ UNCHANGED <<registry, outbox, sys_vars, game_vars>>

\* A ROLL command arrives: handle_roll_command calls load_game.
LkRoll(t) ==
    /\ task[t].pc = "running"
    /\ task[t].cmds < MaxSends
    /\ task' = [task EXCEPT ![t] = [@ EXCEPT !.pc = "rl_load",
                                            !.cmds = @ + 1]]
    /\ UNCHANGED <<registry, outbox, sys_vars, game_vars>>

\* handle_roll_command: load_game answers and game.roll runs.
LkRollLoad(t) ==
    /\ task[t].pc = "rl_load"
    /\ \E outcome \in {"load_failed", "rejected", "rolled"} :
          task' = At(t, CASE outcome = "load_failed" -> "running"
                          [] outcome = "rejected" -> "se_outer"
                          [] OTHER -> "rl_save",
                     "none", "none")
    /\ UNCHANGED <<registry, outbox, sys_vars, game_vars>>

\* handle_roll_command: save_game answers; on Ok the broadcasts follow.
LkRollSave(t) ==
    /\ task[t].pc = "rl_save"
    /\ \E ok \in BOOLEAN :
          task' = IF ok
                  THEN [At(t, "bc_outer", "none", "none") EXCEPT
                           ![t].ret = "rl_state"]
                  ELSE At(t, "running", "none", "none")
    /\ UNCHANGED <<registry, outbox, sys_vars, game_vars>>

\* send_error_to_player: sessions.read() is granted; get(&game_id).
LkSeOuter(t) ==
    /\ task[t].pc = "se_outer"
    /\ OuterFreeForRead(t)
    /\ task' = IF get(registry, task[t].game) = None
               THEN At(t, "running", "none", "none")
               ELSE At(t, "se_inner", "read", "none")
    /\ UNCHANGED <<registry, outbox, sys_vars, game_vars>>

\* send_error_to_player: session.players.read() is granted.
LkSeInner(t) ==
    /\ task[t].pc = "se_inner"
    /\ InnerFreeForRead(t, task[t].game)
    /\ task' = At(t, "se_send", "read", "read")
    /\ UNCHANGED <<registry, outbox, sys_vars, game_vars>>

\* send_error_to_player: the send; both guards are dropped on return.
LkSeSend(t) ==
    /\ task[t].pc = "se_send"
    /\ outbox' = send_error_to_player(get(registry, task[t].game), outbox,
                     task, task[t].player,
                     ServerError("rejected", <<"task", t>>))
    /\ task' = At(t, "running", "none", "none")
    /\ UNCHANGED <<registry, sys_vars, game_vars>>

\* The read loop ends: handle_disconnect is called.
LkDisconnect(t) ==
    /\ task[t].pc = "running"
    /\ task' = At(t, "dc_outer", "none", "none")
    /\ UNCHANGED <<registry, outbox, sys_vars, game_vars>>

\* handle_disconnect: sessions.read() is granted; get(&game_id).
LkDcOuter(t) ==
    /\ task[t].pc = "dc_outer"
    /\ OuterFreeForRead(t)
    /\ task' = IF get(registry, task[t].game) = None
               THEN At(t, "dc_load", "none", "none")
               ELSE At(t, "dc_inner", "read", "none")
    /\ UNCHANGED <<registry, outbox, sys_vars, game_vars>>

\* handle_disconnect: session.players.write() is granted.
LkDcInner(t) ==
    /\ task[t].pc = "dc_inner"
    /\ InnerFreeForWrite(t, task[t].game)
    /\ task' = At(t, "dc_remove", "read", "write")
    /\ UNCHANGED <<registry, outbox, sys_vars, game_vars>>

\* A removal whose block keeps the sessions guard into the load_game call.
LkDcRemove_keeps_outer(t) ==
    /\ task[t].pc = "dc_remove"
    /\ registry' = [registry EXCEPT ![task[t].game] =
                       remove(@, task[t].player)]
    /\ task' = At(t, "dc_load", "read", "none")
    /\ UNCHANGED <<outbox, sys_vars, game_vars>>

\* handle_disconnect: remove(&player_id); both guards are dropped at the
\* end of the block; load_game is called next.
LkDcRemove(t) ==
    /\ task[t].pc = "dc_remove"
    /\ registry' = [registry EXCEPT ![task[t].game] =
                       remove(@, task[t].player)]
    /\ task' = At(t, "dc_load", "none", "none")
    /\ UNCHANGED <<outbox, sys_vars, game_vars>>

\* handle_disconnect: load_game answers; the game is in progress or the
\* cleanup is over.
LkDcLoad(t) ==
    /\ task[t].pc = "dc_load"
    /\ \E in_progress \in BOOLEAN :
          task' = At(t, IF in_progress THEN "dc_save" ELSE "closing",
                     "none", "none")
    /\ UNCHANGED <<registry, outbox, sys_vars, game_vars>>

\* handle_disconnect: save_game answers (the result is ignored); the
\* snapshot is broadcast next.
LkDcSave(t) ==
    /\ task[t].pc = "dc_save"
    /\ task' = [At(t, "bc_outer", "none", "none") EXCEPT
                   ![t].ret = "closing"]
    /\ UNCHANGED <<registry, outbox, sys_vars, game_vars>>

\* handle_socket returns: send_task.abort() drops the receiver.
LkClose(t) ==
    /\ task[t].pc = "closing"
    /\ task' = [task EXCEPT ![t] = [@ EXCEPT !.pc = "done",
                                            !.rx_open = FALSE]]
    /\ UNCHANGED <<registry, outbox, sys_vars, game_vars>>

\* The send task of connection t is running: it is spawned after the
\* initial snapshot and lives until its receiver is dropped.
SendTaskLive(t) ==
    /\ task[t].rx_open
    /\ task[t].pc \notin {"reg_outer", "reg_inner", "reg_insert",
                          "init_load"}
    /\ task[t].ret # "init_load"

\* The send task takes the next message off its channel and writes it to
\* the socket.
LkForward(t) ==
    /\ SendTaskLive(t)
    /\ outbox[t] # <<>>
    /\ outbox' = [outbox EXCEPT ![t] = Tail(@)]
    /\ UNCHANGED <<registry, task, sys_vars, game_vars>>

\* Every running send task has emptied its channel.  No handler step
\* depends on what a channel holds, so letting the send tasks run first
\* leaves out no position or lock state of the handlers.
Drained == \A t \in Tasks : SendTaskLive(t) => outbox[t] = <<>>

\* One step of the handler of connection t, or of its send task.
LkTask(t) ==
    \/ LkForward(t)
    \/ Drained /\ LkConnect(t)
    \/ Drained /\ LkValidate(t)
    \/ Drained /\ LkRegOuter(t)
    \/ Drained /\ LkRegInner(t)
    \/ Drained /\ LkRegInsert(t)
    \/ Drained /\ LkBcOuter(t)
    \/ Drained /\ LkBcInner(t)
    \/ Drained /\ LkBcSend(t)
    \/ Drained /\ LkInitLoad(t)
    \/ Drained /\ LkRxDrop(t)
    \/ Drained /\ LkRoll(t)
    \/ Drained /\ LkRollLoad(t)
    \/ Drained /\ LkRollSave(t)
    \/ Drained /\ LkSeOuter(t)
    \/ Drained /\ LkSeInner(t)
    \/ Drained /\ LkSeSend(t)
    \/ Drained /\ LkDisconnect(t)
    \/ Drained /\ LkDcOuter(t)
    \/ Drained /\ LkDcInner(t)
    \/ Drained /\ LkDcRemove(t)
    \/ Drained /\ LkDcLoad(t)
    \/ Drained /\ LkDcSave(t)
    \/ Drained /\ LkClose(t)

LockNext == \E t \in Tasks : LkTask(t)

LockSpec == Init /\ [][LockNext]_vars

\* Positions at which a handler is inside a load_game or save_game call.
StoreCallPcs ==
    {"validate", "init_load", "rl_load", "rl_save", "dc_load", "dc_save"}

\* Positions inside a registry operation, after its first lock was granted.
InsideRegistryOp ==
    {"reg_inner", "reg_insert", "bc_inner", "bc_send", "se_inner",
     "se_send", "dc_inner", "dc_remove"}

\* C28: a handler that is inside a store load or save holds neither the
\* sessions lock nor a players lock, and a lock is held only by a task that
\* is inside the registry operation that acquired it.
C28_NoLockAcrossStoreCall ==
    \A t \in Tasks :
        /\ task[t].pc \in StoreCallPcs
              => (task[t].outer = "none" /\ task[t].inner = "none")
        /\ (task[t].outer # "none" \/ task[t].inner # "none")
              => task[t].pc \in InsideRegistryOp

\* One handler waits for the store right after its unregistration while
\* another is inside a broadcast with both locks.
C28_Witness ==
    \E t \in Tasks, u \in Tasks :
        /\ task[t].pc = "dc_load"
        /\ task[u].pc = "bc_send"
        /\ task[u].outer = "read"
        /\ task[u].inner = "read"
        /\ task[t].game = task[u].game

\* a is an initial segment of b: nothing removed, reordered or replaced.
IsPrefix(a, b) ==
    /\ Len(a) <= Len(b)
    /\ \A i \in 1..Len(a) : b[i] = a[i]

\* C29: the players of the game only ever grow at the end: whatever step is
\* taken (a state-machine call, a join request, an admission, a roll
\* command, a disconnect cleanup), the players before it are an initial
\* segment of the players after it, for the game a caller holds and for
\* the persisted game, and a step that removes a sender from the session
\* registry leaves the persisted game as it is.
C29_PlayersAppendOnly ==
    [][/\ IsPrefix(game.players, game'.players)
       /\ (store # None /\ store' # None)
             => IsPrefix(store[1].players, store'[1].players)
       /\ store # None => store' # None
       /\ sessions' # sessions => store' = store]_vars

\* C31: a successful pause_game and a successful reconnect change nothing
\* but status (players, current_max and turn_index stay), and a successful
\* reconnect(p) directly after a successful pause_game(p) gives back the
\* very game there was before the pause, with the same player to move.
C31_PauseReconnectRoundTrip ==
    /\ [](((last.op = "pause_game" \/ last.op = "reconnect")
             /\ last.result = "Ok")
            => /\ game.players = last.before.players
               /\ game.current_max = last.before.current_max
               /\ game.turn_index = last.before.turn_index)
    /\ [][(/\ last.op = "pause_game" /\ last.result = "Ok"
           /\ last'.op = "reconnect" /\ last'.result = "Ok"
           /\ last'.player = last.player)
            => /\ game' = last.before
               /\ get_current_player(game')
                    = get_current_player(last.before)]_vars

\* The second player to move was paused on a game whose current_max had been
\* lowered, and has reconnected.
C31_Witness ==
    /\ last.op = "reconnect"
    /\ last.result = "Ok"
    /\ IsPaused(last.before.status)
    /\ last.before.status[2] = last.player
    /\ game.turn_index = 1
    /\ game.current_max < 1000
    /\ game.status = <<"InProgress">>

\* The state machine alone, driven with contract-honouring rollers.
RngMachineNext == DoJoin \/ DoReconnect \/ DoPauseGame \/ DoRollRng

RngMachineSpec == Init /\ [][RngMachineNext]_vars

\* C32: with rollers whose result lies in [1, current_max], no operation of
\* the state machine raises current_max, current_max never exceeds 1000,
\* and a successful roll that can only yield 1 (one taken at
\* current_max = 1, or any that rolls 1) ends the game with the roller as
\* the loser.
C32_CurrentMaxNeverGrows ==
    /\ game.current_max <= last.before.current_max
    /\ game.current_max <= 1000
    /\ (last.op = "roll" /\ last.result = "Ok"
          /\ (last.before.current_max = 1 \/ last.value = 1))
         => /\ last.value = 1
            /\ game.status = <<"PlayerLost", last.player>>
            /\ \E i \in 1..Len(last.events) :
                  last.events[i][1] = "GameOver"

\* current_max came down from 1000 to 2, and the next successful roll, a 1,
\* ended the game.
C32_Witness ==
    /\ last.op = "roll"
    /\ last.result = "Ok"
    /\ last.before.current_max = 2
    /\ last.before.status = <<"InProgress">>
    /\ last.value = 1
    /\ game.status[1] = "PlayerLost"

\* Connections that were admitted and registered and whose read loop has
\* not ended yet.
LiveAdmitted ==
    {c \in Conns : conn[c].pc \in {"registered", "joined", "running",
                                   "roll_save", "roll_error", "roll_events",
                                   "roll_state"}}

\* C33: every connection that passed admission and has not terminated has
\* its own sender stored in the registry under its player, and no step of
\* another connection (its registration or its termination cleanup) takes
\* that away, also when two connections use the same player id.
C33_OwnChannelStaysRegistered ==
    /\ [](\A c \in LiveAdmitted :
             /\ sessions # None
             /\ conn[c].player \in DOMAIN sessions[1]
             /\ sessions[1][conn[c].player] = c)
    /\ [][\A c \in LiveAdmitted :
             (c \in Registered(sessions) /\ c \in LiveAdmitted')
                => c \in Registered(sessions')]_vars

\* No handler is in the middle of an operation.
Quiescent ==
    /\ \A c \in Conns : ConnQuiet(c)
    /\ \A r \in JoinReqs : JoinQuiet(r)

\* Player p had a connection that has terminated and has no live one.
Gone(p) ==
    /\ \E c \in Conns : conn[c].pc = "closed" /\ conn[c].player = p
    /\ \A c \in Conns : conn[c].player = p => conn[c].pc # "running"

\* A join/reconnect request of player p has been answered with success.
CameBack(p) ==
    \E r \in JoinReqs :
        /\ joinreq[r].pc = "done"
        /\ joinreq[r].player = p
        /\ joinreq[r].response = "Ok"

\* C34: pauses are never lost or bypassed: whenever no handler is
\* mid-operation and the persisted game is InProgress, every member whose
\* connection has terminated (and who has no live one) has been through a
\* successful join/reconnect request.
C34_PausesNeverLost ==
    (/\ Quiescent
     /\ store # None
     /\ store[1].status = <<"InProgress">>)
       => \A i \in 1..Len(store[1].players) :
             Gone(store[1].players[i]) => CameBack(store[1].players[i])

\* C35: a GameState snapshot is broadcast by roll handling or by disconnect
\* cleanup only after the save of that very Game succeeded: a roll command
\* goes on to its broadcasts only from a successful save and sends nothing
\* when the save fails, and a cleanup that ran with no other handler active
\* broadcasts a snapshot only if it is the persisted game.
C35_SnapshotsAreSaved ==
    [][\A c \in Conns :
          /\ (conn[c].pc = "roll_save" /\ conn'[c].pc = "roll_events")
                => store' = conn[c].local
          /\ (conn[c].pc = "roll_save" /\ conn'[c].pc # "roll_save"
                /\ store_version' = store_version)
                => (conn'[c].pc = "running" /\ chan' = chan)
          /\ (conn[c].pc \in {"roll_events", "roll_state"}
                /\ conn'[c].pc # conn[c].pc)
                => conn'[c].local = conn[c].local \/ conn'[c].pc = "running"
          /\ (conn[c].pc = "disc_bcast" /\ conn'[c].pc = "closed"
                /\ conn[c].alone
                /\ \E k \in Conns \ {c} : chan'[k] # chan[k])
                => store = conn[c].local]_vars

\* The game of the last GameState snapshot a channel holds, if any.
LastSnapshot(q) ==
    LET at == {i \in DOMAIN q : q[i].type = "GAME_STATE"}
    IN IF at = {} THEN None
       ELSE Some(q[CHOOSE i \in at : \A j \in at : j <= i].game)

\* Channel k agrees with the persisted game of the next state: it holds no
\* snapshot, or its last snapshot is that game.
Converged(k) ==
    LastSnapshot(chan'[k]) \in {None, store'}

\* Connections that are in their read loop with their sender registered and
\* a live receiver.
Listening ==
    {k \in Conns : /\ conn[k].pc = "running"
                   /\ k \in Registered(sessions)
                   /\ conn[k].rx_open}

\* C36: snapshots converge on the persisted state.  Whenever a handler
\* completes and leaves no handler running, and its save is the last
\* successful one, the last snapshot on the channel of every player that
\* has been registered since that save is the persisted game: for a join
\* request that has just saved, for a roll command at its closing
\* broadcast, and for a disconnect cleanup that ran alone.
C36_SnapshotsConverge ==
    [][/\ \A r \in JoinReqs :
            (/\ joinreq[r].pc = "save"
             /\ joinreq'[r].response = "Ok"
             /\ Quiescent')
               => \A k \in Listening : Converged(k)
       /\ \A c \in Conns :
            (/\ conn[c].pc = "roll_state"
             /\ conn'[c].pc = "running"
             /\ store = conn[c].local
             /\ Quiescent')
               => \A k \in Throughout(c) : Converged(k)
       /\ \A c \in Conns :
            (/\ conn[c].pc = "disc_bcast"
             /\ conn'[c].pc = "closed"
             /\ conn[c].alone
             /\ store = conn[c].local
             /\ Quiescent')
               => \A k \in Listening : Converged(k)]_vars

\* Join requests answered with success whose response carries a game that
\* has the requester among its players.
Admitted ==
    {r \in JoinReqs :
        /\ joinreq[r].pc = "done"
        /\ joinreq[r].response = "Ok"
        /\ joinreq[r].local # None
        /\ \E i \in 1..Len(joinreq[r].local[1].players) :
              joinreq[r].local[1].players[i] = joinreq[r].player}

\* C37: once every join request has completed, every requester that was
\* answered with success and a game containing it is among the persisted
\* players; in particular no two requests of different new players have
\* both succeeded.
C37_JoinersArePersisted ==
    (\A r \in JoinReqs : joinreq[r].pc \in {"idle", "done"})
       => /\ \A r \in Admitted :
                /\ store # None
                /\ \E i \in 1..Len(store[1].players) :
                      store[1].players[i] = joinreq[r].player
          /\ \A r \in Admitted, q \in Admitted :
                (/\ joinreq[r].player # joinreq[q].player
                 /\ joinreq[r].player # 1
                 /\ joinreq[q].player # 1)
                   => joinreq[r].local[1].players
                         = joinreq[q].local[1].players

\* The handlers under tokio's scheduler: a task that can take a step is
\* eventually polled.
LockFairSpec == LockSpec /\ \A t \in Tasks : WF_vars(LkTask(t))

\* Positions at which a task waits for a registry lock.
OuterWriteWaits == {"reg_outer"}
OuterReadWaits == {"bc_outer", "se_outer", "dc_outer"}
InnerWriteWaits == {"reg_inner", "dc_inner"}
InnerReadWaits == {"bc_inner", "se_inner"}

\* Positions of a registry operation, waiting or inside.
RegistryOpPcs ==
    OuterWriteWaits \cup OuterReadWaits \cup InnerWriteWaits
        \cup InnerReadWaits \cup InsideRegistryOp

\* Task t cannot be granted the lock it waits for before task u moves on,
\* under tokio's write-preferring RwLock: a writer waits for every holder,
\* a reader for a writer that holds the lock or is queued for it.
WaitsFor(t, u) ==
    /\ t # u
    /\ \/ /\ task[t].pc \in OuterWriteWaits
          /\ task[u].outer # "none"
       \/ /\ task[t].pc \in OuterReadWaits
          /\ (task[u].outer = "write" \/ task[u].pc \in OuterWriteWaits)
       \/ /\ task[t].pc \in InnerWriteWaits
          /\ task[u].game = task[t].game
          /\ task[u].inner # "none"
       \/ /\ task[t].pc \in InnerReadWaits
          /\ task[u].game = task[t].game
          /\ (task[u].inner = "write" \/ task[u].pc \in InnerWriteWaits)

\* Tasks that get their lock after at most n rounds of other tasks moving
\* on.
RECURSIVE Movable(_)
Movable(n) ==
    IF n = 0
    THEN {t \in Tasks : \A u \in Tasks : ~WaitsFor(t, u)}
    ELSE {t \in Tasks : \A u \in Tasks : WaitsFor(t, u) => u \in Movable(n - 1)}

\* C38: the registry operations never deadlock.  The sessions lock is
\* always taken before a players lock and never while one is held; no set
\* of tasks ever waits for one another in a circle, also with writers given
\* preference over readers; and every task that is in a registry operation
\* eventually completes it.
C38_NoRegistryDeadlock ==
    /\ [](\A t \in Tasks :
             /\ task[t].inner # "none" => task[t].outer # "none"
             /\ task[t].pc \in OuterWriteWaits \cup OuterReadWaits
                   => (task[t].outer = "none" /\ task[t].inner = "none")
             /\ task[t].pc \in InnerWriteWaits \cup InnerReadWaits
                   => (task[t].outer # "none" /\ task[t].inner = "none"))
    /\ [](Movable(NumTasks) = Tasks)
    /\ \A t \in Tasks :
          (task[t].pc \in RegistryOpPcs) ~> (task[t].pc \notin RegistryOpPcs)

\* A registration waits for the sessions lock in write mode while a
\* disconnect holds it in read mode and waits for the players lock.
C38_Witness ==
    \E t \in Tasks, u \in Tasks :
        /\ task[t].pc = "reg_outer"
        /\ task[u].outer = "read"
        /\ task[u].pc \in {"bc_inner", "dc_inner", "se_inner"}
        /\ WaitsFor(t, u)

\* Positions of a connection from its opening to its read loop.
AdmissionPcs == {"idle", "validated", "registered", "joined"}

\* C39: no step of the admission and registration of a connection changes
\* the persisted game (a game paused for p stays paused for p when p opens
\* a connection), and a roll command that loads a game paused for
\* reconnection is refused with GamePaused and saves nothing.
C39_AdmissionLeavesGame ==
    [][\A c \in Conns :
          /\ (conn[c].pc \in AdmissionPcs /\ conn'[c].pc # conn[c].pc)
                => (store' = store /\ store_version' = store_version)
          /\ (/\ conn[c].pc = "running"
              /\ rolls_started' # rolls_started
              /\ conn'[c].cmd = rolls_started'
              /\ failures' = failures
              /\ store # None
              /\ store[1].status[1] = "PausedForReconnect")
                => /\ conn'[c].pc = "roll_error"
                   /\ conn'[c].err = "GamePaused"
                   /\ store' = store]_vars

\* The game is paused for a player who has opened a new connection since,
\* and the roll sent on that connection has been refused with GamePaused.
C39_Witness ==
    \E c \in Conns, k \in Conns :
        /\ c # k
        /\ conn[k].pc = "closed"
        /\ conn[k].player = conn[c].player
        /\ store # None
        /\ store[1].status = <<"PausedForReconnect", conn[c].player>>
        /\ conn[c].pc = "roll_error"
        /\ conn[c].err = "GamePaused"

\* C40: in every game built by the create and join request handlers, each
\* GameOver event a roll emits names a winner different from the loser,
\* both of them players of the game that was rolled on; the same holds of
\* every GameOver message on a channel.
C40_WinnerIsTheOtherPlayer ==
    /\ \A c \in Conns :
          conn[c].local # None =>
             \A i \in 1..Len(conn[c].events) :
                conn[c].events[i][1] = "GameOver" =>
                   /\ conn[c].events[i][2] # conn[c].events[i][3]
                   /\ \A j \in {2, 3} :
                         \E n \in 1..Len(conn[c].local[1].players) :
                            conn[c].local[1].players[n] = conn[c].events[i][j]
    /\ \A k \in Conns :
          \A i \in 1..Len(chan[k]) :
             chan[k][i].type = "GAME_OVER" =>
                chan[k][i].winner_id # chan[k][i].loser_id

\* A losing roll has been broadcast: the other player holds the GameOver
\* message that names it the winner.
C40_Witness ==
    \E k \in Conns :
        \E i \in 1..Len(chan[k]) :
            /\ chan[k][i].type = "GAME_OVER"
            /\ chan[k][i].winner_id = conn[k].player
            /\ chan[k][i].loser_id # conn[k].player
            /\ store # None
            /\ store[1].status = <<"PlayerLost", chan[k][i].loser_id>>

====
